---- MODULE Spec2Model ----
(***************************************************************************)
(* Model of the MCP validation subsystem of auto-claude                    *)
(* (src/auto-claude/integrations/mcp): the fallback handler, the error     *)
(* catalog, the availability checker with its per-backend cache, and the   *)
(* validation runners.                                                     *)
(*                                                                         *)
(* Conventions.  An Optional value is a sequence of length 0 (None) or 1.  *)
(* A multi-line text is the sequence of its lines ("\n".join(lines) is the *)
(* list of lines it joins).  Python's None for an enum-valued field is the *)
(* string "None".                                                          *)
(***************************************************************************)
EXTENDS Naturals, Sequences, FiniteSets, TLC

VARIABLES
    availability,   \* fallback: the MCPAvailability handed to handle_mcp_unavailable
    config,         \* fallback: the FallbackConfig
    project,        \* fallback: the marker files present under project_path
    fb              \* fallback: the call's progress and what it returned

fallbackVars == <<availability, config, project, fb>>

VARIABLES
    now,        \* datetime.now(), in ticks
    cache,      \* _browser_cache and _electron_cache, by backend kind
    pc,         \* each caller's position in its check call
    call,       \* each caller's current (or last finished) call
    ncalls,     \* the number of check calls started so far
    hist        \* history: the calls a clear_cache overtook, the stale entries

checkerVars == <<now, cache, pc, call, ncalls, hist>>

VARIABLES
    suite,      \* runners: the E2ETestSuite's test_cases
    e2e,        \* run_e2e_validation: the call's progress and outcome
    fs_config,  \* run_full_suite: the FullSuiteConfig
    fs_pc,      \* run_full_suite: idle, running (tasks gathered), returned
    tasks,      \* run_full_suite: one run_with_semaphore task per test case
    sem,        \* run_full_suite: the value of the asyncio.Semaphore
    fs_result   \* run_full_suite: the E2EValidationResult returned

runnerVars == <<suite, e2e, fs_config, fs_pc, tasks, sem, fs_result>>

VARIABLES
    changed_files,  \* feature selection: the changed paths
    mappings,       \* feature selection: the FeatureMapping list of the project
    ft              \* feature selection: the call made and what it returned

featureVars == <<changed_files, mappings, ft>>

VARIABLES
    tier,       \* run_complexity_aware_validation: the tier argument
    vconfig,    \* the ValidationDepthConfig load_validation_config returns
    orch        \* run_complexity_aware_validation: its progress and outcome

orchVars == <<tier, vconfig, orch>>

VARIABLES
    ex          \* expand_test_cases_for_browsers: arguments, heap and result

expandVars == <<ex>>

VARIABLES
    fcall,      \* a call of aggregate_results or get_validation_depth_for_tier
    rtc         \* run_test_case: the case, the step reached, the client calls

unitVars == <<fcall, rtc>>

None == <<>>
Some(x) == <<x>>

(***************************************************************************)
(* availability.py: the enumerations                                       *)
(***************************************************************************)
MCPStatus == {"AVAILABLE", "UNAVAILABLE", "DEGRADED", "UNKNOWN"}

MCPFailureReason ==
    {"SERVER_NOT_RUNNING", "CONNECTION_TIMEOUT", "AUTH_FAILED",
     "VERSION_MISMATCH", "PERMISSION_DENIED", "UNKNOWN"}

\* MCPAvailability.reason: MCPFailureReason | None
OptReason == MCPFailureReason \cup {"None"}

(***************************************************************************)
(* errors.py: the error catalog.  A remediation text is a multi-line       *)
(* string that enters the message as ONE element of the joined list; it is *)
(* written here by its first line.                                         *)
(***************************************************************************)
MCPError(code, message, remediation, docs_url) ==
    [code |-> code, message |-> message,
     remediation |-> remediation, docs_url |-> docs_url]

MCP_ERRORS ==
    [r \in MCPFailureReason |->
        CASE r = "SERVER_NOT_RUNNING" ->
               MCPError("MCP_001", "MCP server is not running",
                        "To start the Browser MCP server:",
                        Some("https://docs.anthropic.com/mcp/servers"))
          [] r = "CONNECTION_TIMEOUT" ->
               MCPError("MCP_002", "Connection to MCP server timed out",
                        "Check your network and MCP server:",
                        Some("https://docs.anthropic.com/mcp/troubleshooting#timeout"))
          [] r = "AUTH_FAILED" ->
               MCPError("MCP_003", "Authentication to MCP server failed",
                        "Check your MCP credentials:",
                        Some("https://docs.anthropic.com/mcp/auth"))
          [] r = "VERSION_MISMATCH" ->
               MCPError("MCP_004", "MCP server version is incompatible",
                        "Update your MCP server:",
                        Some("https://docs.anthropic.com/mcp/changelog"))
          [] r = "PERMISSION_DENIED" ->
               MCPError("MCP_005", "Permission denied accessing MCP server",
                        "Check permissions:",
                        Some("https://docs.anthropic.com/mcp/permissions"))
          [] r = "UNKNOWN" ->
               MCPError("MCP_999", "Unknown MCP error",
                        "Try these general troubleshooting steps:",
                        Some("https://docs.anthropic.com/mcp/troubleshooting"))]

\* A lookup that ignores the reason: every failure gets the UNKNOWN entry.
get_error_for_reason_AlwaysUnknown(reason) == MCP_ERRORS["UNKNOWN"]

\* MCP_ERRORS.get(reason, MCP_ERRORS[UNKNOWN]): None is no key of the catalog.
get_error_for_reason(reason) ==
    IF reason \in DOMAIN MCP_ERRORS THEN MCP_ERRORS[reason]
                                    ELSE MCP_ERRORS["UNKNOWN"]

\* The header line f"<warning sign>  {error.message} [{error.code}]".
HeaderLine(error) == error.message \o " [" \o error.code \o "]"

format_error_message(reason, include_remediation) ==
    LET error == get_error_for_reason(reason)
        head  == <<HeaderLine(error), "">>
        rem   == IF include_remediation
                 THEN <<"Remediation:", error.remediation>> ELSE <<>>
        docs  == IF error.docs_url # None
                 THEN <<"", "Documentation: " \o error.docs_url[1]>> ELSE <<>>
    IN  head \o rem \o docs

(***************************************************************************)
(* fallback.py                                                             *)
(***************************************************************************)
FallbackMode == {"FAIL", "WARN", "SKIP", "REDUCED"}

\* FallbackConfig; mark_as_partial is read by no code of the handler.
FallbackConfig == [mode : FallbackMode, run_unit_tests : BOOLEAN, run_lint : BOOLEAN]

\* The files _run_unit_tests and _run_lint look for under project_path.
\* "tests" stands for: pytest.ini exists or tests exists.
MarkerFiles == {"tests", "package.json", "pyproject.toml"}

\* What subprocess.run does for one command: it returns a CompletedProcess
\* with returncode 0 or not 0, or it raises OSError because the executable
\* cannot be started (FileNotFoundError, PermissionError).
SubprocessOutcomes == {"zero", "nonzero", "oserror"}

\* The outcome of one substitute check: the command it ran (if any) and
\* "True", "False" (its return value) or "raise".
Ran(cmd, outcome) ==
    [cmds |-> <<cmd>>,
     value |-> CASE outcome = "zero" -> "True"
                 [] outcome = "nonzero" -> "False"
                 [] OTHER -> "raise"]

NoCommand == [cmds |-> <<>>, value |-> "True"]

_run_unit_tests(proj, outcome) ==
    IF "tests" \in proj THEN Ran("pytest -x -q", outcome)
    ELSE IF "package.json" \in proj THEN Ran("npm test", outcome)
    ELSE NoCommand

_run_lint(proj, outcome) ==
    IF "package.json" \in proj THEN Ran("npm run lint", outcome)
    ELSE IF "pyproject.toml" \in proj THEN Ran("ruff check .", outcome)
    ELSE NoCommand

E2EValidationResult(passed, total, npassed, nfailed, failures, raw_output) ==
    [passed |-> passed, total_checks |-> total, passed_checks |-> npassed,
     failed_checks |-> nfailed, failures |-> failures, raw_output |-> raw_output]

FallbackResult(used, reason, run, unit, lint) ==
    [used_fallback |-> used, reason |-> reason, validation_run |-> run,
     unit_tests_passed |-> unit, lint_passed |-> lint]

\* What a call of handle_mcp_unavailable leaves behind: it returned the pair
\* (validation_result, fallback_result) or an exception left it; the
\* substitutes it called, the commands they started, the log records.
Outcome(pcv, raised, vres, fres, calls, commands) ==
    [pc |-> pcv, raised |-> raised, validation_result |-> vres,
     fallback_result |-> fres, calls |-> calls, commands |-> commands,
     log |-> <<"WARNING">>]

\* A FAIL branch that reports the fallback as used.
FailBranch_UsedFallback(av) ==
    Outcome("returned", "None", None,
            Some(FallbackResult(TRUE, av.message, "none", "None", "None")),
            <<>>, <<>>)

\* lines 140-145
FailBranch(av) ==
    Outcome("returned", "None", None,
            Some(FallbackResult(FALSE, av.message, "none", "None", "None")),
            <<>>, <<>>)

\* lines 147-158
SkipBranch(av) ==
    Outcome("returned", "None",
            Some(E2EValidationResult(TRUE, 0, 0, 0, <<>>,
                     <<"E2E validation skipped - MCP unavailable">>)),
            Some(FallbackResult(TRUE, av.message, "none", "None", "None")),
            <<>>, <<>>)

\* lines 176-182
SyntheticResult(av) ==
    E2EValidationResult(TRUE, 0, 0, 0, <<>>,
                        format_error_message(av.reason, FALSE))

\* lines 160-184: WARN or REDUCED.  ut and lt are what subprocess.run does
\* for the unit-test command and for the lint command, if they are started.
\* An exception of a substitute is caught nowhere: it leaves the handler.
WarnOrReducedBranch(av, cfg, proj, ut, lt) ==
    LET run    == IF cfg.mode = "REDUCED" THEN "reduced" ELSE "none"
        doUnit == cfg.mode = "REDUCED" /\ cfg.run_unit_tests
        doLint == cfg.mode = "REDUCED" /\ cfg.run_lint
        unit   == _run_unit_tests(proj, ut)
        lint   == _run_lint(proj, lt)
    IN  IF doUnit /\ unit.value = "raise"
        THEN Outcome("raised", "OSError", None, None,
                     <<"_run_unit_tests">>, unit.cmds)
        ELSE LET calls1 == IF doUnit THEN <<"_run_unit_tests">> ELSE <<>>
                 cmds1  == IF doUnit THEN unit.cmds ELSE <<>>
                 unitv  == IF doUnit THEN unit.value ELSE "None"
             IN  IF doLint /\ lint.value = "raise"
                 THEN Outcome("raised", "OSError", None, None,
                              calls1 \o <<"_run_lint">>, cmds1 \o lint.cmds)
                 ELSE LET calls2 == IF doLint THEN calls1 \o <<"_run_lint">> ELSE calls1
                          cmds2  == IF doLint THEN cmds1 \o lint.cmds ELSE cmds1
                          lintv  == IF doLint THEN lint.value ELSE "None"
                      IN  Outcome("returned", "None",
                                  Some(SyntheticResult(av)),
                                  Some(FallbackResult(TRUE, av.message, run, unitv, lintv)),
                                  calls2, cmds2)

\* lines 111-184, with a config given (a FallbackConfig is always truthy).
HandleOutcome(av, cfg, proj, ut, lt) ==
    IF cfg.mode = "FAIL" THEN FailBranch(av)
    ELSE IF cfg.mode = "SKIP" THEN SkipBranch(av)
    ELSE WarnOrReducedBranch(av, cfg, proj, ut, lt)

FbStart == [pc |-> "start"]

handle_mcp_unavailable ==
    /\ fb.pc = "start"
    /\ \E ut \in SubprocessOutcomes, lt \in SubprocessOutcomes :
           fb' = HandleOutcome(availability, config, project, ut, lt)
    /\ UNCHANGED <<availability, config, project>>
    /\ UNCHANGED <<checkerVars, runnerVars, featureVars, orchVars, expandVars, unitVars>>

\* The messages of an availability value are free text; two of them.
Messages == {"Server not running", "Auth failed"}

FallbackInit ==
    /\ availability \in [status : MCPStatus, reason : OptReason, message : Messages]
    /\ config \in FallbackConfig
    /\ project \in SUBSET MarkerFiles
    /\ fb = FbStart

(***************************************************************************)
(* availability.py: MCPAvailabilityChecker.  Callers are coroutines of one *)
(* event loop: a call runs without interruption up to its next await, and  *)
(* it may be suspended in `await client.connect()` and in                  *)
(* `await client.close()`, where other callers run.  Time is counted in    *)
(* ticks of 60 seconds.                                                    *)
(***************************************************************************)

Kinds == {"browser", "electron"}
Callers == {"t1", "t2"}

\* The clock stops at MaxTime and at most MaxCalls checks are started.
MaxTime == 1
MaxCalls == 2

\* cache_duration: int = 60 (seconds)
CacheDuration == 1
\* timedelta(minutes=5) and timedelta(minutes=1)
RetryServerNotRunning == 5
RetryTimeout == 1

\* What `await client.connect()` does: it returns True or False or raises.
ConnectOutcomes == {"True", "False", "TimeoutError", "PermissionError", "Exception"}
\* What `await client.close()` does: it returns or raises.
CloseOutcomes == {"ok", "TimeoutError", "PermissionError", "Exception"}

KindName(kind) == IF kind = "browser" THEN "Browser" ELSE "Electron"

MCPAvailability(status, reason, message, checked_at, retry_after) ==
    [status |-> status, reason |-> reason, message |-> message,
     checked_at |-> checked_at, retry_after |-> retry_after]

\* A freshness test that still serves an entry whose age equals the TTL.
CacheFresh_Inclusive(entry, t) == t - entry.checked_at <= CacheDuration

\* datetime.now() - cache.checked_at < self._cache_duration
\* (the clock does not run backwards, so the difference is a natural number)
CacheFresh(entry, t) == t - entry.checked_at < CacheDuration

\* lines 93-95 / 156-158: the cached entry is returned
CacheHit(kind, force) ==
    /\ ~force
    /\ cache[kind] # None
    /\ CacheFresh(cache[kind][1], now)

\* lines 106-120 / 169-183: no exception, classified by connect's value
ClassifyConnected(kind, connected, t) ==
    IF connected = "True"
    THEN MCPAvailability("AVAILABLE", "None",
                         KindName(kind) \o " MCP is available", t, None)
    ELSE MCPAvailability("UNAVAILABLE", "SERVER_NOT_RUNNING",
                         KindName(kind) \o " MCP server is not running", t,
                         Some(t + RetryServerNotRunning))

\* A handler table in which the timeout clause classifies as not running.
ClassifyException_TimeoutAsNotRunning(kind, exc, t) ==
    CASE exc = "TimeoutError" ->
           MCPAvailability("UNAVAILABLE", "SERVER_NOT_RUNNING",
                           "Connection to " \o KindName(kind) \o " MCP timed out",
                           t, Some(t + RetryServerNotRunning))
      [] exc = "PermissionError" ->
           MCPAvailability("UNAVAILABLE", "PERMISSION_DENIED",
                           "Permission denied connecting to " \o KindName(kind) \o " MCP",
                           t, None)
      [] OTHER ->
           MCPAvailability("UNAVAILABLE", "UNKNOWN",
                           KindName(kind) \o " MCP check failed: error", t, None)

\* lines 122-143 / 185-206: the except clauses, in their order
ClassifyException(kind, exc, t) ==
    CASE exc = "TimeoutError" ->
           MCPAvailability("UNAVAILABLE", "CONNECTION_TIMEOUT",
                           "Connection to " \o KindName(kind) \o " MCP timed out",
                           t, Some(t + RetryTimeout))
      [] exc = "PermissionError" ->
           MCPAvailability("UNAVAILABLE", "PERMISSION_DENIED",
                           "Permission denied connecting to " \o KindName(kind) \o " MCP",
                           t, None)
      [] OTHER ->
           MCPAvailability("UNAVAILABLE", "UNKNOWN",
                           KindName(kind) \o " MCP check failed: error", t, None)

\* A call record.  probed: a client was created and connect awaited;
\* connect, close: what those awaits did ("None": not reached);
\* close_calls: how often close was called on the probe's client;
\* ret: the value returned; seq: the call's number among all calls.
NoCall ==
    [kind |-> "browser", force |-> FALSE, probed |-> FALSE,
     connect |-> "None", close |-> "None", close_calls |-> 0,
     ret |-> None, seq |-> 0]

InFlight(c) == pc[c] \in {"connect", "close"}

\* The history kept beside the checker: overtaken holds the callers whose
\* call is suspended in its probe and was so when clear_cache ran, stale
\* the kinds whose cached entry was stored by such a call after the clear.
\* The history is kept where on is true.
NoHist == [on |-> TRUE, overtaken |-> {}, stale |-> {}]

HistOff == [on |-> FALSE, overtaken |-> {}, stale |-> {}]

\* lines 105-143: caller c assigns the entry of its probe to the cache
Stored(c, kind) ==
    [hist EXCEPT !.overtaken = @ \ {c},
                 !.stale = IF c \in hist.overtaken THEN @ \cup {kind}
                           ELSE @ \ {kind}]

\* lines 84-103 / 147-166: from the call to the first await
CheckStart(c, kind, force) ==
    /\ pc[c] \in {"idle", "done"}
    /\ ncalls < MaxCalls
    /\ ncalls' = ncalls + 1
    /\ LET rec == [NoCall EXCEPT !.kind = kind, !.force = force,
                                  !.seq = ncalls + 1]
       IN  IF CacheHit(kind, force)
           THEN /\ pc' = [pc EXCEPT ![c] = "done"]
                /\ call' = [call EXCEPT ![c] = [rec EXCEPT !.ret = cache[kind]]]
           ELSE /\ pc' = [pc EXCEPT ![c] = "connect"]
                /\ call' = [call EXCEPT ![c] = [rec EXCEPT !.probed = TRUE]]
    /\ UNCHANGED hist
    /\ UNCHANGED <<now, cache>>
    /\ UNCHANGED <<fallbackVars, runnerVars, featureVars, orchVars, expandVars, unitVars>>

check_browser_mcp(c, force) == CheckStart(c, "browser", force)

check_electron_mcp(c, force) == CheckStart(c, "electron", force)

\* `connected = await client.connect()` completes.  A value goes on to
\* `await client.close()`; an exception goes to the except clauses, which
\* store the classified entry and return it: close is not called.
ConnectDone(c, outcome) ==
    /\ pc[c] = "connect"
    /\ IF outcome \in {"True", "False"}
       THEN /\ pc' = [pc EXCEPT ![c] = "close"]
            /\ call' = [call EXCEPT ![c].connect = outcome,
                                    ![c].close_calls = @ + 1]
            /\ UNCHANGED <<cache, hist>>
       ELSE LET entry == ClassifyException(call[c].kind, outcome, now)
            IN  /\ cache' = [cache EXCEPT ![call[c].kind] = Some(entry)]
                /\ hist' = Stored(c, call[c].kind)
                /\ pc' = [pc EXCEPT ![c] = "done"]
                /\ call' = [call EXCEPT ![c].connect = outcome,
                                        ![c].ret = Some(entry)]
    /\ UNCHANGED <<now, ncalls>>
    /\ UNCHANGED <<fallbackVars, runnerVars, featureVars, orchVars, expandVars, unitVars>>

\* `await client.close()` completes: the entry is classified by connect's
\* value if close returned and by the exception if close raised; it is
\* stored and `return self._browser_cache` returns it in the same step.
CloseDone(c, outcome) ==
    /\ pc[c] = "close"
    /\ LET entry == IF outcome = "ok"
                    THEN ClassifyConnected(call[c].kind, call[c].connect, now)
                    ELSE ClassifyException(call[c].kind, outcome, now)
       IN  /\ cache' = [cache EXCEPT ![call[c].kind] = Some(entry)]
           /\ hist' = Stored(c, call[c].kind)
           /\ pc' = [pc EXCEPT ![c] = "done"]
           /\ call' = [call EXCEPT ![c].close = outcome, ![c].ret = Some(entry)]
    /\ UNCHANGED <<now, ncalls>>
    /\ UNCHANGED <<fallbackVars, runnerVars, featureVars, orchVars, expandVars, unitVars>>

\* lines 210-213
clear_cache ==
    /\ cache' = [k \in Kinds |-> None]
    /\ hist' = IF hist.on
               THEN [hist EXCEPT !.overtaken = @ \cup {c \in Callers : InFlight(c)},
                                 !.stale = {}]
               ELSE hist
    /\ UNCHANGED <<now, pc, call, ncalls>>
    /\ UNCHANGED <<fallbackVars, runnerVars, featureVars, orchVars, expandVars, unitVars>>

Tick ==
    /\ now < MaxTime
    /\ now' = now + 1
    /\ UNCHANGED <<cache, pc, call, ncalls, hist>>
    /\ UNCHANGED <<fallbackVars, runnerVars, featureVars, orchVars, expandVars, unitVars>>

\* __init__, lines 74-82
CheckerInit ==
    /\ now = 0
    /\ cache = [k \in Kinds |-> None]
    /\ pc = [c \in Callers |-> "idle"]
    /\ call = [c \in Callers |-> NoCall]
    /\ ncalls = 0
    /\ hist = HistOff

\* The same with the history kept.
TrackedCheckerInit ==
    /\ now = 0
    /\ cache = [k \in Kinds |-> None]
    /\ pc = [c \in Callers |-> "idle"]
    /\ call = [c \in Callers |-> NoCall]
    /\ ncalls = 0
    /\ hist = NoHist

CheckerNext ==
    \/ \E c \in Callers, force \in BOOLEAN : check_browser_mcp(c, force)
    \/ \E c \in Callers, force \in BOOLEAN : check_electron_mcp(c, force)
    \/ \E c \in Callers, o \in ConnectOutcomes : ConnectDone(c, o)
    \/ \E c \in Callers, o \in CloseOutcomes : CloseDone(c, o)
    \/ clear_cache
    \/ Tick

\* Calls issued one after another: a check or a clear_cache starts only
\* when no other call is suspended.
NoneInFlight == \A c \in Callers : ~InFlight(c)

SeqCheckerNext ==
    \/ \E c \in Callers, force \in BOOLEAN :
           NoneInFlight /\ check_browser_mcp(c, force)
    \/ \E c \in Callers, force \in BOOLEAN :
           NoneInFlight /\ check_electron_mcp(c, force)
    \/ \E c \in Callers, o \in ConnectOutcomes : ConnectDone(c, o)
    \/ \E c \in Callers, o \in CloseOutcomes : CloseDone(c, o)
    \/ NoneInFlight /\ clear_cache
    \/ Tick

(***************************************************************************)
(* models.py, validation.py, full_suite.py: the runners.  A test case is   *)
(* its id, name, steps and its skip and critical flags; run_test_case on   *)
(* a case that is not skipped drives the client and returns a dict with    *)
(* passed True or False (it catches every exception of its steps,          *)
(* validation.py lines 40-79).                                             *)
(***************************************************************************)
\* A suite holds at most MaxCases test cases; a full-suite configuration
\* has at most MaxWorkers parallel workers.
MaxCases == 2
MaxWorkers == 2

AppUrl == "http://localhost:3000"

E2ETestStep(action, selector, value, expected, position) ==
    [action |-> action, selector |-> selector, value |-> value,
     expected |-> expected, position |-> position]

\* A list of steps is an object: obj names the list object and items are
\* the steps it holds, so that a copy of a list is told from the list.
StepList(obj, items) == [obj |-> obj, items |-> items]

E2ETestCase(id, name, steps, skip, critical) ==
    [id |-> id, name |-> name, steps |-> steps, skip |-> skip,
     critical |-> critical]

CaseName(i) == "case " \o ToString(i)

\* The steps held by the cases the runners are given.
OneStep == <<E2ETestStep("click", "#go", "None", "None", "None")>>

CaseId(i) == "tc" \o ToString(i)

\* The suites: cases tc1..tcn, each skipped or not.
Suites ==
    UNION { { [i \in 1..n |->
                  E2ETestCase(CaseId(i), CaseName(i), StepList(CaseId(i), OneStep), skips[i], FALSE)] :
                skips \in [1..n -> BOOLEAN] } : n \in 0..MaxCases }

\* What an awaited client call does when its value matters: it returns
\* True or False or raises.
BoolOutcomes == {"True", "False", "raise"}
\* What a call does whose value is not read: it returns or raises.
CallOutcomes == {"ok", "raise"}
\* What run_test_case returns for a case that is not skipped.
CaseOutcomes == {"pass", "fail"}

\* An entry of E2EValidationResult.failures: the failed case's id ("None"
\* when the record names no case) and its error.
Failure(id, error) == [id |-> id, error |-> error]

(***************************************************************************)
(* validation.py: run_e2e_validation, one session, cases one by one        *)
(***************************************************************************)
\* A connect failure reported as a passing run without checks.
ConnectFailedResult_Passing(cases) ==
    E2EValidationResult(TRUE, 0, 0, 0, <<>>, <<>>)

\* lines 178-185
ConnectFailedResult(cases) ==
    E2EValidationResult(FALSE, Len(cases), 0, Len(cases),
        <<Failure("None", "Failed to connect to Browser MCP")>>, <<>>)

\* lines 188-195
LaunchFailedResult(cases) ==
    E2EValidationResult(FALSE, Len(cases), 0, Len(cases),
        <<Failure("None", "Failed to launch app at " \o AppUrl)>>, <<>>)

\* lines 198-220: the loop over the cases, from case i on.  outs[i] is what
\* run_test_case returns for case i, shots[i] what the screenshot of a
\* failed case i does; acc holds the counters, the failures, the cases
\* whose steps were run, and whether an exception ended the loop.
RECURSIVE RunCases(_, _, _, _, _)
RunCases(cases, outs, shots, i, acc) ==
    IF i > Len(cases) THEN acc
    ELSE IF cases[i].skip THEN RunCases(cases, outs, shots, i + 1, acc)
    ELSE LET ran == Append(acc.ran, cases[i].id)
         IN  IF outs[i] = "pass"
             THEN RunCases(cases, outs, shots, i + 1,
                           [acc EXCEPT !.ran = ran, !.passed_count = @ + 1])
             ELSE IF shots[i] = "raise"
             THEN [acc EXCEPT !.ran = ran, !.failed_count = @ + 1, !.raised = TRUE]
             ELSE RunCases(cases, outs, shots, i + 1,
                           [acc EXCEPT !.ran = ran, !.failed_count = @ + 1,
                                       !.failures = Append(@, Failure(cases[i].id, "error"))])

LoopStart == [passed_count |-> 0, failed_count |-> 0, failures |-> <<>>,
              ran |-> <<>>, raised |-> FALSE]

E2ECall(pcv, result, co, lo, ran) ==
    [pc |-> pcv, result |-> result, connect |-> co, launch |-> lo, ran |-> ran,
     close_calls |-> 1]

\* lines 166-233.  The try block returns a result or raises; the finally
\* clause then awaits close, whose exception replaces either.
E2EOutcome(cases, co, lo, outs, shots, cl) ==
    LET acc  == RunCases(cases, outs, shots, 1, LoopStart)
        body ==
            IF co = "raise" THEN E2ECall("raised", None, co, "None", <<>>)
            ELSE IF co = "False"
            THEN E2ECall("returned", Some(ConnectFailedResult(cases)), co, "None", <<>>)
            ELSE IF lo = "raise" THEN E2ECall("raised", None, co, lo, <<>>)
            ELSE IF lo = "False"
            THEN E2ECall("returned", Some(LaunchFailedResult(cases)), co, lo, <<>>)
            ELSE IF acc.raised THEN E2ECall("raised", None, co, lo, acc.ran)
            ELSE E2ECall("returned",
                         Some(E2EValidationResult(acc.failed_count = 0, Len(cases),
                                  acc.passed_count, acc.failed_count,
                                  acc.failures, <<>>)),
                         co, lo, acc.ran)
    IN  IF cl = "raise" THEN [body EXCEPT !.pc = "raised", !.result = None]
        ELSE body

E2EOff == [pc |-> "off"]
E2EStart == [pc |-> "start"]

run_e2e_validation ==
    /\ e2e.pc = "start"
    /\ \E co \in BoolOutcomes, lo \in BoolOutcomes, cl \in CallOutcomes,
          outs \in [1..Len(suite) -> CaseOutcomes],
          shots \in [1..Len(suite) -> CallOutcomes] :
           e2e' = E2EOutcome(suite, co, lo, outs, shots, cl)
    /\ UNCHANGED <<suite, fs_config, fs_pc, tasks, sem, fs_result>>
    /\ UNCHANGED <<fallbackVars, checkerVars, featureVars, orchVars, expandVars, unitVars>>

(***************************************************************************)
(* full_suite.py: run_full_suite, one session per test case, the sessions  *)
(* in flight bounded by a semaphore                                        *)
(***************************************************************************)
\* A full-suite run gathers at most MaxTasks tasks.
MaxTasks == 3

FullSuiteConfig(workers, cross_browser, browsers) ==
    [parallel_workers |-> workers, cross_browser |-> cross_browser,
     browsers |-> browsers]

\* lines 35-38: the defaults of the dataclass
DefaultFullSuiteConfig == FullSuiteConfig(4, TRUE, <<"chromium">>)

BrowserLists ==
    {<<"chromium">>, <<"chromium", "firefox">>, <<"chromium", "firefox", "webkit">>}

FullSuiteConfigs ==
    {FullSuiteConfig(w, cb, bs) :
        w \in 1..MaxWorkers, cb \in BOOLEAN, bs \in BrowserLists}

\* An expansion whose cases hold the step list of the case they come from.
expand_test_cases_for_browsers_SharedSteps(test_cases, browsers) ==
    LET m == Len(browsers)
    IN  [k \in 1..(Len(test_cases) * m) |->
            LET tc == test_cases[((k - 1) \div m) + 1]
                browser == browsers[((k - 1) % m) + 1]
            IN  E2ETestCase(tc.id \o "-" \o browser,
                            tc.name \o " (" \o browser \o ")",
                            tc.steps, tc.skip, tc.critical)]

\* lines 79-118: one new case per case and browser, case-major, the id
\* suffixed with the browser; steps.copy() is a new list object (the
\* k-th copy) with the same items.
expand_test_cases_for_browsers(test_cases, browsers) ==
    LET m == Len(browsers)
    IN  [k \in 1..(Len(test_cases) * m) |->
            LET tc == test_cases[((k - 1) \div m) + 1]
                browser == browsers[((k - 1) % m) + 1]
            IN  E2ETestCase(tc.id \o "-" \o browser,
                            tc.name \o " (" \o browser \o ")",
                            StepList("copy" \o ToString(k), tc.steps.items),
                            tc.skip, tc.critical)]

\* A choice of cases that expands whenever more than one browser is listed.
FullSuiteCases_IgnoresCrossBrowser(test_cases, cfg) ==
    IF Len(cfg.browsers) > 1
    THEN expand_test_cases_for_browsers(test_cases, cfg.browsers)
    ELSE test_cases

\* lines 144-151
FullSuiteCases(test_cases, cfg) ==
    IF cfg.cross_browser /\ Len(cfg.browsers) > 1
    THEN expand_test_cases_for_browsers(test_cases, cfg.browsers)
    ELSE test_cases

\* A task of run_with_semaphore: where it is, whether connect returned or
\* raised ("None" before it is called), whether
\* run_test_case drove the client, what the try block left to return
\* (pending), what gather got from the task (result: "pass" and "fail" are
\* run_test_case's dicts, "caught" the dict of the except clause,
\* "exception" an exception that left the task), the calls of close, and
\* the calls of the task that raised.
NewTask(tc) ==
    [case |-> tc, pc |-> "waiting", connect |-> "None", ran |-> FALSE,
     pending |-> "None", result |-> "None", close_calls |-> 0, raised |-> {}]

\* lines 141-183: the cases are expanded, the semaphore is created and
\* the tasks are handed to gather.
run_full_suite ==
    /\ fs_pc = "idle"
    /\ LET test_cases == FullSuiteCases(suite, fs_config)
       IN  tasks' = [i \in 1..Len(test_cases) |-> NewTask(test_cases[i])]
    /\ sem' = fs_config.parallel_workers
    /\ fs_pc' = "running"
    /\ UNCHANGED <<suite, e2e, fs_config, fs_result>>
    /\ UNCHANGED <<fallbackVars, checkerVars, featureVars, orchVars, expandVars, unitVars>>

\* A task that goes on to its session without taking a slot.
run_with_semaphore_NoGate(i, factory) ==
    /\ fs_pc = "running"
    /\ tasks[i].pc = "waiting"
    /\ IF factory = "raise"
       THEN tasks' = [tasks EXCEPT ![i].pc = "done", ![i].result = "exception",
                                       ![i].raised = {"factory"}]
       ELSE tasks' = [tasks EXCEPT ![i].pc = "connect"]
    /\ UNCHANGED <<suite, e2e, fs_config, fs_pc, sem, fs_result>>
    /\ UNCHANGED <<fallbackVars, checkerVars, featureVars, orchVars, expandVars, unitVars>>

\* lines 163-166: the task takes a slot of the semaphore, asks the factory
\* for a client and calls connect.  A factory that raises is outside the
\* try block: the slot is given back and the exception leaves the task.
run_with_semaphore(i, factory) ==
    /\ fs_pc = "running"
    /\ tasks[i].pc = "waiting"
    /\ sem > 0
    /\ IF factory = "raise"
       THEN /\ tasks' = [tasks EXCEPT ![i].pc = "done", ![i].result = "exception",
                                       ![i].raised = {"factory"}]
            /\ UNCHANGED sem
       ELSE /\ tasks' = [tasks EXCEPT ![i].pc = "connect"]
            /\ sem' = sem - 1
    /\ UNCHANGED <<suite, e2e, fs_config, fs_pc, fs_result>>
    /\ UNCHANGED <<fallbackVars, checkerVars, featureVars, orchVars, expandVars, unitVars>>

\* lines 166-167, 170-177: the value of connect is not read, so the task
\* keeps no more than that connect returned; an exception goes to the
\* except clause, whose dict becomes the value to return, and then to
\* close.
AfterConnect(t, outcome) ==
    IF outcome = "raise"
    THEN [t EXCEPT !.connect = "raise", !.pc = "close", !.pending = "caught",
                   !.raised = {"connect"}]
    ELSE [t EXCEPT !.connect = "returned", !.pc = "launch"]

TaskConnect(i, outcome) ==
    /\ fs_pc = "running"
    /\ tasks[i].pc = "connect"
    /\ tasks' = [tasks EXCEPT ![i] = AfterConnect(tasks[i], outcome)]
    /\ UNCHANGED <<suite, e2e, fs_config, fs_pc, sem, fs_result>>
    /\ UNCHANGED <<fallbackVars, checkerVars, featureVars, orchVars, expandVars, unitVars>>

\* lines 167-168: the value of launch_app is not read either.  On a skipped
\* case run_test_case returns its passing dict without touching the client
\* (validation.py lines 29-37), so the task goes on to close at once.
AfterLaunch(t, outcome) ==
    IF outcome = "raise"
    THEN [t EXCEPT !.pc = "close", !.pending = "caught", !.raised = {"launch"}]
    ELSE IF t.case.skip THEN [t EXCEPT !.pc = "close", !.pending = "pass"]
    ELSE [t EXCEPT !.pc = "run"]

TaskLaunch(i, outcome) ==
    /\ fs_pc = "running"
    /\ tasks[i].pc = "launch"
    /\ tasks' = [tasks EXCEPT ![i] = AfterLaunch(tasks[i], outcome)]
    /\ UNCHANGED <<suite, e2e, fs_config, fs_pc, sem, fs_result>>
    /\ UNCHANGED <<fallbackVars, checkerVars, featureVars, orchVars, expandVars, unitVars>>

\* lines 168-169: run_test_case returns the case's dict.
TaskRunCase(i, outcome) ==
    /\ fs_pc = "running"
    /\ tasks[i].pc = "run"
    /\ tasks' = [tasks EXCEPT ![i].pc = "close", ![i].ran = TRUE,
                              ![i].pending = outcome]
    /\ UNCHANGED <<suite, e2e, fs_config, fs_pc, sem, fs_result>>
    /\ UNCHANGED <<fallbackVars, checkerVars, featureVars, orchVars, expandVars, unitVars>>

\* A close whose exception keeps the slot of the task.
TaskClose_KeepsSlotOnRaise(i, outcome) ==
    /\ fs_pc = "running"
    /\ tasks[i].pc = "close"
    /\ tasks' = [tasks EXCEPT ![i].pc = "done",
                              ![i].close_calls = @ + 1,
                              ![i].result = IF outcome = "raise" THEN "exception"
                                            ELSE tasks[i].pending,
                              ![i].raised = IF outcome = "raise" THEN @ \cup {"close"}
                                            ELSE @]
    /\ sem' = IF outcome = "raise" THEN sem ELSE sem + 1
    /\ UNCHANGED <<suite, e2e, fs_config, fs_pc, fs_result>>
    /\ UNCHANGED <<fallbackVars, checkerVars, featureVars, orchVars, expandVars, unitVars>>

\* lines 178-179: close in the finally clause; its exception replaces the
\* value to return.  Leaving the async with gives the slot back.
TaskClose(i, outcome) ==
    /\ fs_pc = "running"
    /\ tasks[i].pc = "close"
    /\ tasks' = [tasks EXCEPT ![i].pc = "done",
                              ![i].close_calls = @ + 1,
                              ![i].result = IF outcome = "raise" THEN "exception"
                                            ELSE tasks[i].pending,
                              ![i].raised = IF outcome = "raise" THEN @ \cup {"close"}
                                            ELSE @]
    /\ sem' = sem + 1
    /\ UNCHANGED <<suite, e2e, fs_config, fs_pc, fs_result>>
    /\ UNCHANGED <<fallbackVars, checkerVars, featureVars, orchVars, expandVars, unitVars>>

\* A result that counts the dicts of the tasks and leaves out the
\* exceptions gather collected.
FullSuiteResult_DropsExceptions(ts) ==
    LET passed == SelectSeq(ts, LAMBDA t : t.result = "pass")
        failed == SelectSeq(ts, LAMBDA t : t.result \in {"fail", "caught"})
    IN  E2EValidationResult(Len(failed) = 0, Len(ts), Len(passed), Len(failed),
            [k \in 1..Len(failed) |-> Failure(failed[k].case.id, "error")],
            <<>>)

\* lines 188-209: the results of gather, in the order of the tasks
FullSuiteResult(ts) ==
    LET passed == SelectSeq(ts, LAMBDA t : t.result = "pass")
        failed == SelectSeq(ts, LAMBDA t : t.result # "pass")
    IN  E2EValidationResult(Len(failed) = 0, Len(ts), Len(passed), Len(failed),
            [k \in 1..Len(failed) |->
                IF failed[k].result = "exception" THEN Failure("None", "error")
                ELSE Failure(failed[k].case.id, "error")],
            <<>>)

\* lines 183, 203-209: gather returns once every task has ended.
FullSuiteReturn ==
    /\ fs_pc = "running"
    /\ \A i \in DOMAIN tasks : tasks[i].pc = "done"
    /\ fs_result' = Some(FullSuiteResult(tasks))
    /\ fs_pc' = "returned"
    /\ UNCHANGED <<suite, e2e, fs_config, tasks, sem>>
    /\ UNCHANGED <<fallbackVars, checkerVars, featureVars, orchVars, expandVars, unitVars>>

\* Either runner on every suite; run_full_suite on every configuration.
RunnerInit ==
    /\ suite \in Suites
    /\ \/ /\ e2e = E2EStart
          /\ fs_config = DefaultFullSuiteConfig
          /\ fs_pc = "off"
       \/ /\ e2e = E2EOff
          /\ fs_config \in FullSuiteConfigs
          /\ Len(FullSuiteCases(suite, fs_config)) <= MaxTasks
          /\ fs_pc = "idle"
    /\ tasks = <<>>
    /\ sem = 0
    /\ fs_result = None

\* No runner is called.
RunnerOff ==
    /\ e2e = E2EOff
    /\ fs_config = DefaultFullSuiteConfig
    /\ fs_pc = "off"
    /\ tasks = <<>>
    /\ sem = 0
    /\ fs_result = None

RunnerIdle ==
    /\ suite = <<>>
    /\ e2e = E2EOff
    /\ fs_config = DefaultFullSuiteConfig
    /\ fs_pc = "off"
    /\ tasks = <<>>
    /\ sem = 0
    /\ fs_result = None

RunnerNext ==
    \/ run_e2e_validation
    \/ run_full_suite
    \/ \E i \in DOMAIN tasks, factory \in CallOutcomes : run_with_semaphore(i, factory)
    \/ \E i \in DOMAIN tasks, outcome \in BoolOutcomes : TaskConnect(i, outcome)
    \/ \E i \in DOMAIN tasks, outcome \in BoolOutcomes : TaskLaunch(i, outcome)
    \/ \E i \in DOMAIN tasks, outcome \in CaseOutcomes : TaskRunCase(i, outcome)
    \/ \E i \in DOMAIN tasks, outcome \in CallOutcomes : TaskClose(i, outcome)
    \/ FullSuiteReturn

(***************************************************************************)
(* validation_depth.py: the depth of validation for a tier                 *)
(***************************************************************************)
ValidationDepth == {"smoke", "feature", "full"}

ValidationDepthConfig(simple_depth, standard_depth, complex_depth, force_depth) ==
    [simple_depth |-> simple_depth, standard_depth |-> standard_depth,
     complex_depth |-> complex_depth, force_depth |-> force_depth]

\* lines 46-49: the defaults of the dataclass
DefaultValidationDepthConfig ==
    ValidationDepthConfig("smoke", "feature", "full", "None")

\* lines 58-67
DEFAULT_TIER_MAP ==
    [t \in {"simple", "standard", "complex", "quick-flow", "method", "enterprise"} |->
        CASE t \in {"simple", "quick-flow"} -> "smoke"
          [] t \in {"standard", "method"} -> "feature"
          [] t \in {"complex", "enterprise"} -> "full"]

\* The tier names given to the entry point: the six known tiers, two of
\* them also in another case, and a name that is no tier.
Tiers == {"simple", "standard", "complex", "quick-flow", "method", "enterprise",
          "Simple", "COMPLEX", "unknown"}

\* str.lower on the tier names
Lower(t) ==
    CASE t = "Simple" -> "simple"
      [] t = "COMPLEX" -> "complex"
      [] t = "Quick-Flow" -> "quick-flow"
      [] t = "METHOD" -> "method"
      [] t = "Enterprise" -> "enterprise"
      [] t = "STANDARD" -> "standard"
      [] t = "UNKNOWN" -> "unknown"
      [] OTHER -> t

\* A resolution whose config overrides reach the native tier names only.
get_validation_depth_for_tier_NativeOverrides(t, cfg) ==
    IF cfg # None /\ cfg[1].force_depth # "None" THEN cfg[1].force_depth
    ELSE LET tier_map ==
                 IF cfg = None THEN DEFAULT_TIER_MAP
                 ELSE [x \in DOMAIN DEFAULT_TIER_MAP |->
                          CASE x = "simple" -> cfg[1].simple_depth
                            [] x = "standard" -> cfg[1].standard_depth
                            [] x = "complex" -> cfg[1].complex_depth
                            [] OTHER -> DEFAULT_TIER_MAP[x]]
         IN  IF Lower(t) \in DOMAIN tier_map THEN tier_map[Lower(t)] ELSE "feature"

\* A resolution that looks the tier up before it looks at force_depth.
get_validation_depth_for_tier_ForceLast(t, cfg) ==
    IF cfg # None /\ cfg[1].force_depth # "None" /\ Lower(t) \notin DOMAIN DEFAULT_TIER_MAP
    THEN "feature"
    ELSE IF cfg # None /\ cfg[1].force_depth # "None" THEN cfg[1].force_depth
    ELSE LET tier_map ==
                 IF cfg = None THEN DEFAULT_TIER_MAP
                 ELSE [x \in DOMAIN DEFAULT_TIER_MAP |->
                          CASE x \in {"simple", "quick-flow"} -> cfg[1].simple_depth
                            [] x \in {"standard", "method"} -> cfg[1].standard_depth
                            [] x \in {"complex", "enterprise"} -> cfg[1].complex_depth]
         IN  IF Lower(t) \in DOMAIN tier_map THEN tier_map[Lower(t)] ELSE "feature"

\* lines 95-112: cfg is None or Some(config)
get_validation_depth_for_tier(t, cfg) ==
    IF cfg # None /\ cfg[1].force_depth # "None" THEN cfg[1].force_depth
    ELSE LET tier_map ==
                 IF cfg = None THEN DEFAULT_TIER_MAP
                 ELSE [x \in DOMAIN DEFAULT_TIER_MAP |->
                          CASE x \in {"simple", "quick-flow"} -> cfg[1].simple_depth
                            [] x \in {"standard", "method"} -> cfg[1].standard_depth
                            [] x \in {"complex", "enterprise"} -> cfg[1].complex_depth]
         IN  IF Lower(t) \in DOMAIN tier_map THEN tier_map[Lower(t)] ELSE "feature"

(***************************************************************************)
(* feature_tests.py: feature selection.  A path and a glob pattern are     *)
(* sequences of characters; a changed file is the string of its Path.      *)
(***************************************************************************)
\* At most MaxFiles changed files and MaxMappings feature mappings.
MaxFiles == 2
MaxMappings == 2

\* fnmatch.fnmatch on POSIX, for patterns of literal characters, "?" (any
\* one character) and "*" (any characters, "/" included); the whole name
\* has to match.
RECURSIVE fnmatch(_, _)
fnmatch(name, pat) ==
    IF pat = <<>> THEN name = <<>>
    ELSE IF Head(pat) = "*"
    THEN fnmatch(name, Tail(pat)) \/ (name # <<>> /\ fnmatch(Tail(name), pat))
    ELSE /\ name # <<>>
         /\ Head(pat) = "?" \/ Head(pat) = Head(name)
         /\ fnmatch(Tail(name), Tail(pat))

FeatureMapping(feature_name, code_paths, test_ids) ==
    [feature_name |-> feature_name, code_paths |-> code_paths,
     test_ids |-> test_ids]

\* lines 67-74: the patterns of one mapping from pattern k on; the loop
\* stops at the first pattern the file matches.
RECURSIVE MatchesMapping(_, _, _)
MatchesMapping(file_str, code_paths, k) ==
    IF k > Len(code_paths) THEN FALSE
    ELSE IF fnmatch(file_str, code_paths[k]) THEN TRUE
    ELSE MatchesMapping(file_str, code_paths, k + 1)

\* lines 66-74: the mappings from mapping j on, for one file
RECURSIVE AffectedByFile(_, _, _, _)
AffectedByFile(file_str, feature_mappings, j, affected) ==
    IF j > Len(feature_mappings) THEN affected
    ELSE AffectedByFile(file_str, feature_mappings, j + 1,
             IF MatchesMapping(file_str, feature_mappings[j].code_paths, 1)
             THEN affected \cup {feature_mappings[j].feature_name}
             ELSE affected)

\* lines 64-74: the files from file i on
RECURSIVE AffectedFrom(_, _, _, _)
AffectedFrom(files, feature_mappings, i, affected) ==
    IF i > Len(files) THEN affected
    ELSE AffectedFrom(files, feature_mappings, i + 1,
             AffectedByFile(files[i], feature_mappings, 1, affected))

\* A version that stops at the first file that activates a feature.
get_affected_features_FirstFileOnly(files, feature_mappings) ==
    IF files = <<>> THEN {}
    ELSE LET first == AffectedByFile(files[1], feature_mappings, 1, {})
         IN  IF first # {} THEN first
             ELSE AffectedFrom(Tail(files), feature_mappings, 1, {})

\* lines 62-77: the list made of the set has no order of its own, so the
\* result is the set.
get_affected_features(files, feature_mappings) ==
    AffectedFrom(files, feature_mappings, 1, {})

\* lines 105-110
RelevantTestIds(affected_features, feature_mappings) ==
    UNION { {feature_mappings[j].test_ids[k] :
                k \in 1..Len(feature_mappings[j].test_ids)} :
            j \in {j \in 1..Len(feature_mappings) :
                      feature_mappings[j].feature_name \in affected_features} }

\* A filter that keeps the matching cases and forgets the critical ones.
filter_tests_by_features_NoCritical(test_cases, affected_features, feature_mappings) ==
    LET relevant == RelevantTestIds(affected_features, feature_mappings)
    IN  SelectSeq(test_cases, LAMBDA tc : tc.id \in relevant)

\* lines 104-135: the test_cases of the suite returned; the features are
\* read as a set (the list is only searched and joined into the
\* description).
filter_tests_by_features(test_cases, affected_features, feature_mappings) ==
    LET relevant == RelevantTestIds(affected_features, feature_mappings)
        filtered_cases == SelectSeq(test_cases, LAMBDA tc : tc.id \in relevant)
        critical_tests ==
            SelectSeq(test_cases, LAMBDA tc : tc.critical /\ tc.id \notin relevant)
    IN  filtered_cases \o critical_tests

\* The inputs of feature selection: four paths, three patterns, four
\* pattern lists and four lists of test ids, two feature names.
Paths == {<<"a", "/", "x">>, <<"a", "/", "y">>, <<"b", "/", "x">>, <<"c">>}

PatternLists ==
    {<<>>, <<<<"a", "/", "*">>>>, <<<<"?", "/", "y">>, <<"*", "x">>>>,
     <<<<"c", "*">>, <<"a", "/", "x">>>>}

FeatureNames == {"auth", "dashboard"}

TestIdLists == {<<>>, <<"tc1">>, <<"tc2", "tc1">>, <<"tc2", "tc9">>}

SeqsUpTo(S, n) == UNION {[1..k -> S] : k \in 0..n}

\* Suites whose cases are critical or not.
CriticalSuites ==
    UNION { { [i \in 1..n |->
                  E2ETestCase(CaseId(i), CaseName(i), StepList(CaseId(i), OneStep), FALSE, crit[i])] :
                crit \in [1..n -> BOOLEAN] } : n \in 0..MaxCases }

FtOff == [pc |-> "off"]

FeatureIdle ==
    /\ changed_files = <<>>
    /\ mappings = <<>>
    /\ ft = FtOff

\* Either function on its arguments: get_affected_features on changed
\* files and mappings with patterns, filter_tests_by_features on a suite
\* and mappings with test ids.
FeatureInit ==
    \/ /\ ft = [pc |-> "call_affected"]
       /\ changed_files \in SeqsUpTo(Paths, MaxFiles)
       /\ mappings \in SeqsUpTo({FeatureMapping(f, cp, <<>>) :
                                    f \in FeatureNames, cp \in PatternLists},
                                MaxMappings)
       /\ suite = <<>>
    \/ /\ ft = [pc |-> "call_filter"]
       /\ changed_files = <<>>
       /\ mappings \in SeqsUpTo({FeatureMapping(f, <<>>, ids) :
                                    f \in FeatureNames, ids \in TestIdLists},
                                MaxMappings)
       /\ suite \in CriticalSuites

FtReturned(fn, features, out) ==
    [pc |-> "returned", fn |-> fn, features |-> features, out |-> out]

CallGetAffectedFeatures ==
    /\ ft.pc = "call_affected"
    /\ ft' = FtReturned("get_affected_features", {},
                        get_affected_features(changed_files, mappings))
    /\ UNCHANGED <<changed_files, mappings>>
    /\ UNCHANGED <<fallbackVars, checkerVars, runnerVars, orchVars, expandVars, unitVars>>

CallFilterTests(features) ==
    /\ ft.pc = "call_filter"
    /\ ft' = FtReturned("filter_tests_by_features", features,
                        filter_tests_by_features(suite, features, mappings))
    /\ UNCHANGED <<changed_files, mappings>>
    /\ UNCHANGED <<fallbackVars, checkerVars, runnerVars, orchVars, expandVars, unitVars>>

FeatureNext ==
    \/ CallGetAffectedFeatures
    \/ \E features \in SUBSET FeatureNames : CallFilterTests(features)

(***************************************************************************)
(* smoke_tests.py: the four smoke checks                                   *)
(***************************************************************************)
SmokeTestResult(app_loads, main_page_renders, no_console_errors, health_check_passed, errors) ==
    [app_loads |-> app_loads, main_page_renders |-> main_page_renders,
     no_console_errors |-> no_console_errors,
     health_check_passed |-> health_check_passed, errors |-> errors]

\* lines 67, 70, 87, 110, 125: the values the checks start from
SmokeStart == SmokeTestResult(FALSE, FALSE, TRUE, TRUE, <<>>)

\* line 92: the selectors check 2 tries in turn
RootSelectors == <<"body", "#root", "#app", "[data-testid='app']", "main">>

\* What the getConsoleErrors call gives: an empty list, a list of errors,
\* a true value that is no list (the stub of _mcp_call returns True), or
\* an exception.
ConsoleOutcomes == {"empty", "errors", "truthy", "raise"}

\* What the fetch of the health endpoint gives: a dict with status 200, a
\* dict with another status, a value that is no dict, or an exception.
HealthOutcomes == {"200", "500", "nondict", "raise"}

CheckFailure(check, error) == [check |-> check, error |-> error]

\* A conversion that reports the failed checks only.
smoke_result_to_e2e_result_FailedOnly(smoke) ==
    LET checks == <<smoke.app_loads, smoke.main_page_renders,
                    smoke.no_console_errors, smoke.health_check_passed>>
        failed_count == Cardinality({i \in 1..Len(checks) : ~checks[i]})
    IN  E2EValidationResult(failed_count = 0, failed_count, 0, failed_count,
                            <<>>, <<>>)

\* lines 154-194
smoke_result_to_e2e_result(smoke) ==
    LET checks == <<smoke.app_loads, smoke.main_page_renders,
                    smoke.no_console_errors, smoke.health_check_passed>>
        passed_count == Cardinality({i \in 1..Len(checks) : checks[i]})
        failed_count == Len(checks) - passed_count
        failures ==
            (IF ~smoke.app_loads
             THEN <<CheckFailure("app_loads", "App failed to load")>> ELSE <<>>)
            \o (IF ~smoke.main_page_renders
                THEN <<CheckFailure("main_page_renders", "Main page did not render")>>
                ELSE <<>>)
            \o (IF ~smoke.no_console_errors
                THEN <<CheckFailure("console_errors", "Console errors detected")>>
                ELSE <<>>)
            \o (IF ~smoke.health_check_passed
                THEN <<CheckFailure("health_check", "Health check failed")>>
                ELSE <<>>)
    IN  E2EValidationResult(failed_count = 0, Len(checks), passed_count,
                            failed_count, failures, <<>>)

(***************************************************************************)
(* complexity_aware_validation.py: run_complexity_aware_validation         *)
(***************************************************************************)
\* lines 42-49; duration_seconds, the wall time, is left out
ValidationMetrics(t, depth, test_count, passed_count, failed_count, skipped_test_count, browser_count) ==
    [tier |-> t, depth |-> depth, test_count |-> test_count,
     passed_count |-> passed_count, failed_count |-> failed_count,
     skipped_test_count |-> skipped_test_count, browser_count |-> browser_count]

LogRecord(level, message) == [level |-> level, message |-> message]

\* lines 73-101: the records the function logs
log_validation_metrics(metrics) ==
    <<LogRecord("INFO", "Validation completed")>>
    \o (IF metrics.skipped_test_count > 0
        THEN <<LogRecord("INFO", "Skipped tests due to depth filtering")>> ELSE <<>>)
    \o (IF metrics.failed_count > 0
        THEN <<LogRecord("WARNING", "Validation FAILED")>>
        ELSE <<LogRecord("INFO", "Validation PASSED")>>)

\* lines 225-229: the configuration of the FULL depth
OrchFullSuiteConfig == FullSuiteConfig(4, TRUE, <<"chromium", "firefox">>)

OrchOff == [pc |-> "off"]

\* The call before its first step.  calls lists the calls made on the one
\* client of the SMOKE and FEATURE depths; cases is the suite that is run
\* at FEATURE depth and k the case, or the selector of check 2, in turn;
\* body is what the try block ended with, "result" or "raised"; exc holds
\* the smoke checks whose call on the client raised and console what the
\* getConsoleErrors call gave; ran lists the ids of the cases handed to
\* run_test_case, in the order of the calls, and launch what launch_app
\* did at FEATURE depth.
OrchStart ==
    [pc |-> "start", depth |-> "None", calls |-> <<>>, cases |-> <<>>, k |-> 0,
     smoke |-> SmokeStart, passed_count |-> 0, failed_count |-> 0,
     failures |-> <<>>, skipped_count |-> 0, browser_count |-> 1,
     body |-> "None", result |-> None, metrics |-> None, log |-> <<>>,
     exc |-> {}, console |-> "None", ran |-> <<>>, launch |-> "None"]

OrchIdle ==
    /\ tier = "simple"
    /\ vconfig = DefaultValidationDepthConfig
    /\ orch = OrchOff

Call(o, name) == [o EXCEPT !.calls = Append(@, name)]

\* A finally clause that closes only when the try block ended normally.
ToClose_SkipOnException(o, body) ==
    IF body = "raised" THEN [o EXCEPT !.pc = "raised", !.body = body]
    ELSE [Call(o, "close") EXCEPT !.pc = "close", !.body = body]

\* lines 174-175, 220-221: the finally clause calls close.
ToClose(o, body) == [Call(o, "close") EXCEPT !.pc = "close", !.body = body]

\* lines 205-208 on skipped cases: run_test_case returns the passing dict
\* of a skipped case without a call on the client.
RECURSIVE SkipAhead(_)
SkipAhead(o) ==
    IF o.k <= Len(o.cases) /\ o.cases[o.k].skip
    THEN SkipAhead([o EXCEPT !.k = @ + 1, !.passed_count = @ + 1,
                             !.ran = Append(@, o.cases[o.k].id)])
    ELSE o

\* lines 205-221: on to the next case that is not skipped, or, after the
\* last case, to the result and the finally clause.
FeatureAdvance(o) ==
    LET a == SkipAhead(o)
    IN  IF a.k > Len(a.cases)
        THEN ToClose([a EXCEPT !.result =
                         Some(E2EValidationResult(a.failed_count = 0, Len(a.cases),
                                  a.passed_count, a.failed_count, a.failures, <<>>))],
                     "result")
        ELSE [Call(a, "run_test_case") EXCEPT !.pc = "feature_case",
                                              !.ran = Append(@, a.cases[a.k].id)]

\* A selection that filters also when no changed file is given.
FeatureCases_AlwaysFilters(test_cases, files, feature_mappings) ==
    filter_tests_by_features(test_cases,
        get_affected_features(files, feature_mappings), feature_mappings)

\* lines 181-190: the suite the FEATURE depth runs
FeatureCases(test_cases, files, feature_mappings) ==
    IF files # <<>>
    THEN filter_tests_by_features(test_cases,
             get_affected_features(files, feature_mappings), feature_mappings)
    ELSE test_cases

\* lines 152-175, 177-195, 223-233: the depth is resolved; at SMOKE and
\* FEATURE depth the factory is asked for the client (outside the try
\* block, so its exception leaves the entry point) and connect is called;
\* at FULL depth run_full_suite is called.
run_complexity_aware_validation(factory) ==
    /\ orch.pc = "start"
    /\ LET depth == get_validation_depth_for_tier(tier, Some(vconfig))
           o == [orch EXCEPT !.depth = depth]
       IN  IF depth = "full"
           THEN /\ orch' = [o EXCEPT !.pc = "full",
                                     !.browser_count = Len(OrchFullSuiteConfig.browsers)]
                /\ fs_config' = OrchFullSuiteConfig
                /\ fs_pc' = "idle"
           ELSE /\ LET cases == IF depth = "feature"
                                THEN FeatureCases(suite, changed_files, mappings)
                                ELSE <<>>
                       f == [o EXCEPT !.cases = cases,
                                      !.skipped_count =
                                          IF depth = "feature" /\ changed_files # <<>>
                                          THEN Len(suite) - Len(cases) ELSE 0]
                   IN  orch' = IF factory = "raise"
                               THEN [f EXCEPT !.pc = "raised"]
                               ELSE [Call(f, "connect") EXCEPT !.pc = "connect"]
                /\ UNCHANGED <<fs_config, fs_pc>>
    /\ UNCHANGED <<suite, e2e, tasks, sem, fs_result, tier, vconfig>>
    /\ UNCHANGED <<fallbackVars, checkerVars, featureVars, expandVars, unitVars>>

\* lines 169, 194: the value of connect is not read; its exception goes
\* to the finally clause.
OrchConnect(outcome) ==
    /\ orch.pc = "connect"
    /\ orch' = IF outcome = "raise" THEN ToClose(orch, "raised")
               ELSE [Call(orch, "launch_app") EXCEPT
                        !.pc = IF orch.depth = "smoke" THEN "smoke_launch"
                               ELSE "feature_launch"]
    /\ UNCHANGED <<tier, vconfig>>
    /\ UNCHANGED <<fallbackVars, checkerVars, runnerVars, featureVars, expandVars, unitVars>>

\* smoke_tests.py lines 69-88: check 1; check 2 is made only if the app
\* loaded.
SmokeLaunch(outcome) ==
    /\ orch.pc = "smoke_launch"
    /\ orch' =
           IF outcome = "True"
           THEN [Call(orch, "assert_visible") EXCEPT
                    !.smoke.app_loads = TRUE, !.pc = "smoke_visible", !.k = 1]
           ELSE [Call(orch, "getConsoleErrors") EXCEPT
                    !.smoke.errors = Append(@, IF outcome = "False"
                                               THEN "App failed to load"
                                               ELSE "App failed to load: error"),
                    !.exc = IF outcome = "raise" THEN @ \cup {1} ELSE @,
                    !.pc = "smoke_console"]
    /\ UNCHANGED <<tier, vconfig>>
    /\ UNCHANGED <<fallbackVars, checkerVars, runnerVars, featureVars, expandVars, unitVars>>

\* smoke_tests.py lines 92-104: selector k of check 2; a selector that is
\* not visible or whose call raises gives way to the next one.
SmokeVisible(outcome) ==
    /\ orch.pc = "smoke_visible"
    /\ orch' =
           LET o == [orch EXCEPT !.exc = IF outcome = "raise" THEN @ \cup {2} ELSE @]
           IN  IF outcome = "True"
               THEN [Call(o, "getConsoleErrors") EXCEPT
                        !.smoke.main_page_renders = TRUE, !.pc = "smoke_console"]
               ELSE IF o.k < Len(RootSelectors)
               THEN [Call(o, "assert_visible") EXCEPT !.k = @ + 1]
               ELSE [Call(o, "getConsoleErrors") EXCEPT
                        !.smoke.errors =
                            Append(@, "Main page did not render expected elements"),
                        !.pc = "smoke_console"]
    /\ UNCHANGED <<tier, vconfig>>
    /\ UNCHANGED <<fallbackVars, checkerVars, runnerVars, featureVars, expandVars, unitVars>>

\* A check 3 that fails, with an error string, when its call raises.
SmokeConsole_ExceptionFails(outcome) ==
    /\ orch.pc = "smoke_console"
    /\ orch' =
           [Call(orch, "fetch") EXCEPT
               !.smoke.no_console_errors = outcome = "empty",
               !.smoke.errors = IF outcome \in {"errors", "raise"}
                                THEN Append(@, "Console error: error") ELSE @,
               !.exc = IF outcome = "raise" THEN @ \cup {3} ELSE @,
               !.console = outcome,
               !.pc = "smoke_health"]
    /\ UNCHANGED <<tier, vconfig>>
    /\ UNCHANGED <<fallbackVars, checkerVars, runnerVars, featureVars, expandVars, unitVars>>

\* smoke_tests.py lines 110-122: check 3.  A true value that is no list
\* fails the check and then raises in the slice, which the except clause
\* swallows; an exception of the call leaves the check passed.
SmokeConsole(outcome) ==
    /\ orch.pc = "smoke_console"
    /\ orch' =
           [Call(orch, "fetch") EXCEPT
               !.smoke.no_console_errors = outcome \notin {"errors", "truthy"},
               !.smoke.errors = IF outcome = "errors"
                                THEN Append(@, "Console error: error") ELSE @,
               !.exc = IF outcome = "raise" THEN @ \cup {3} ELSE @,
               !.console = outcome,
               !.pc = "smoke_health"]
    /\ UNCHANGED <<tier, vconfig>>
    /\ UNCHANGED <<fallbackVars, checkerVars, runnerVars, featureVars, expandVars, unitVars>>

\* smoke_tests.py lines 125-151 and lines 171-175 of the entry point:
\* check 4 (the app url is an http url), the conversion of the smoke
\* result, the skipped count, and the finally clause.
SmokeHealth(outcome) ==
    /\ orch.pc = "smoke_health"
    /\ LET smoke == [orch.smoke EXCEPT !.health_check_passed = outcome # "500"]
       IN  orch' = ToClose([orch EXCEPT
                               !.smoke = smoke,
                               !.exc = IF outcome = "raise" THEN @ \cup {4} ELSE @,
                               !.result = Some(smoke_result_to_e2e_result(smoke)),
                               !.skipped_count = Len(suite)],
                           "result")
    /\ UNCHANGED <<tier, vconfig>>
    /\ UNCHANGED <<fallbackVars, checkerVars, runnerVars, featureVars, expandVars, unitVars>>

\* line 195: the value of launch_app is not read.
FeatureLaunch(outcome) ==
    /\ orch.pc = "feature_launch"
    /\ orch' = IF outcome = "raise"
               THEN ToClose([orch EXCEPT !.launch = outcome], "raised")
               ELSE FeatureAdvance([orch EXCEPT !.k = 1, !.launch = outcome])
    /\ UNCHANGED <<tier, vconfig>>
    /\ UNCHANGED <<fallbackVars, checkerVars, runnerVars, featureVars, expandVars, unitVars>>

\* lines 205-211: run_test_case returns the dict of case k.
FeatureCase(outcome) ==
    /\ orch.pc = "feature_case"
    /\ orch' =
           FeatureAdvance(
               IF outcome = "pass"
               THEN [orch EXCEPT !.k = @ + 1, !.passed_count = @ + 1]
               ELSE [orch EXCEPT !.k = @ + 1, !.failed_count = @ + 1,
                                 !.failures = Append(@, Failure(orch.cases[orch.k].id,
                                                                "error"))])
    /\ UNCHANGED <<tier, vconfig>>
    /\ UNCHANGED <<fallbackVars, checkerVars, runnerVars, featureVars, expandVars, unitVars>>

\* lines 236-252: the metrics are built from the result, logged, and the
\* pair is returned.
OrchReturn(o, result) ==
    LET metrics == ValidationMetrics(tier, o.depth, result.total_checks,
                       result.passed_checks, result.failed_checks,
                       o.skipped_count, o.browser_count)
    IN  [o EXCEPT !.pc = "returned", !.result = Some(result),
                  !.metrics = Some(metrics),
                  !.log = log_validation_metrics(metrics)]

\* lines 174-175, 220-221, 236-252: close returns or raises; an exception
\* of close or of the try block leaves the entry point, otherwise the
\* metrics follow.
OrchClose(outcome) ==
    /\ orch.pc = "close"
    /\ orch' = IF outcome = "raise" \/ orch.body = "raised"
               THEN [orch EXCEPT !.pc = "raised", !.result = None]
               ELSE OrchReturn(orch, orch.result[1])
    /\ UNCHANGED <<tier, vconfig>>
    /\ UNCHANGED <<fallbackVars, checkerVars, runnerVars, featureVars, expandVars, unitVars>>

\* lines 231-252: run_full_suite has returned its result.
OrchFullReturn ==
    /\ orch.pc = "full"
    /\ fs_pc = "returned"
    /\ orch' = OrchReturn(orch, fs_result[1])
    /\ UNCHANGED <<tier, vconfig>>
    /\ UNCHANGED <<fallbackVars, checkerVars, runnerVars, featureVars, expandVars, unitVars>>

\* The tiers, configurations, changed files and mappings the entry point
\* is called with.
OrchTiers == {"simple", "standard", "complex", "unknown"}

OrchConfigs ==
    {DefaultValidationDepthConfig,
     ValidationDepthConfig("smoke", "feature", "full", "full"),
     ValidationDepthConfig("feature", "smoke", "smoke", "None")}

OrchChangedFiles == {<<>>, <<<<"a", "/", "x">>>>, <<<<"c">>>>}

OrchMappings ==
    {<<>>, <<FeatureMapping("auth", <<<<"a", "/", "*">>>>, <<"tc1">>)>>}

\* Suites whose cases are skipped or not and critical or not.
OrchSuites ==
    UNION { { [i \in 1..n |->
                  E2ETestCase(CaseId(i), CaseName(i), StepList(CaseId(i), OneStep), skips[i], crit[i])] :
                skips \in [1..n -> BOOLEAN], crit \in [1..n -> BOOLEAN] } :
            n \in 0..MaxCases }

\* The changed files, the mappings and the critical flags vary where they
\* are read, at FEATURE depth; at FULL depth the suite is one whose tasks
\* are at most MaxTasks.
OrchInit ==
    /\ tier \in OrchTiers
    /\ vconfig \in OrchConfigs
    /\ suite \in OrchSuites
    /\ changed_files \in OrchChangedFiles
    /\ mappings \in OrchMappings
    /\ LET depth == get_validation_depth_for_tier(tier, Some(vconfig))
       IN  /\ depth # "feature" =>
                  /\ changed_files = <<>>
                  /\ mappings = <<>>
                  /\ \A i \in DOMAIN suite : ~suite[i].critical
           /\ depth = "full" =>
                  Len(FullSuiteCases(suite, OrchFullSuiteConfig)) <= MaxTasks
    /\ ft = FtOff
    /\ orch = OrchStart
    /\ RunnerOff

OrchNext ==
    \/ \E factory \in CallOutcomes : run_complexity_aware_validation(factory)
    \/ \E outcome \in BoolOutcomes : OrchConnect(outcome)
    \/ \E outcome \in BoolOutcomes : SmokeLaunch(outcome)
    \/ \E outcome \in BoolOutcomes : SmokeVisible(outcome)
    \/ \E outcome \in ConsoleOutcomes : SmokeConsole(outcome)
    \/ \E outcome \in HealthOutcomes : SmokeHealth(outcome)
    \/ \E outcome \in BoolOutcomes : FeatureLaunch(outcome)
    \/ \E outcome \in CaseOutcomes : FeatureCase(outcome)
    \/ \E outcome \in CallOutcomes : OrchClose(outcome)
    \/ OrchFullReturn
    \/ run_full_suite
    \/ \E i \in DOMAIN tasks, factory \in CallOutcomes : run_with_semaphore(i, factory)
    \/ \E i \in DOMAIN tasks, outcome \in BoolOutcomes : TaskConnect(i, outcome)
    \/ \E i \in DOMAIN tasks, outcome \in BoolOutcomes : TaskLaunch(i, outcome)
    \/ \E i \in DOMAIN tasks, outcome \in CaseOutcomes : TaskRunCase(i, outcome)
    \/ \E i \in DOMAIN tasks, outcome \in CallOutcomes : TaskClose(i, outcome)
    \/ FullSuiteReturn

\* run_full_suite called by its caller, on every suite and configuration
FullDirectInit ==
    /\ suite \in Suites
    /\ e2e = E2EOff
    /\ fs_config \in FullSuiteConfigs
    /\ Len(FullSuiteCases(suite, fs_config)) <= MaxTasks
    /\ fs_pc = "idle"
    /\ tasks = <<>>
    /\ sem = 0
    /\ fs_result = None
    /\ FeatureIdle
    /\ OrchIdle

\* run_full_suite called by the entry point: the tier resolves to FULL
FullOrchInit ==
    /\ OrchInit
    /\ get_validation_depth_for_tier(tier, Some(vconfig)) = "full"

FullNext ==
    \/ \E factory \in CallOutcomes : run_complexity_aware_validation(factory)
    \/ OrchFullReturn
    \/ run_full_suite
    \/ \E i \in DOMAIN tasks, factory \in CallOutcomes : run_with_semaphore(i, factory)
    \/ \E i \in DOMAIN tasks, outcome \in BoolOutcomes : TaskConnect(i, outcome)
    \/ \E i \in DOMAIN tasks, outcome \in BoolOutcomes : TaskLaunch(i, outcome)
    \/ \E i \in DOMAIN tasks, outcome \in CaseOutcomes : TaskRunCase(i, outcome)
    \/ \E i \in DOMAIN tasks, outcome \in CallOutcomes : TaskClose(i, outcome)
    \/ FullSuiteReturn

(***************************************************************************)
(* full_suite.py: expand_test_cases_for_browsers called on its own, and a  *)
(* caller that afterwards appends a step to an expanded case               *)
(***************************************************************************)
StepsItems ==
    {<<>>, OneStep, <<E2ETestStep("navigate", "None", "/home", "None", "None"),
       E2ETestStep("click", "#go", "None", "None", "None")>>}

ExpandCases ==
    UNION { { [i \in 1..n |->
                  E2ETestCase(CaseId(i), CaseName(i),
                              StepList("list" \o ToString(i), items[i]),
                              skips[i], crit[i])] :
                items \in [1..n -> StepsItems], skips \in [1..n -> BOOLEAN],
                crit \in [1..n -> BOOLEAN] } : n \in 0..MaxCases }

\* browsers is any list of strings: a name may be listed twice
ExpandBrowserLists == BrowserLists \cup {<<>>, <<"chromium", "chromium">>}

ExOff == [pc |-> "off"]

\* cases is the list given to the function, orig its value at the call,
\* out the list returned, changed the expanded case the caller changed.
ExStart(cases, browsers) ==
    [pc |-> "call", cases |-> cases, orig |-> cases, browsers |-> browsers,
     out |-> <<>>, changed |-> 0]

ExpandIdle == ex = ExOff

ExpandInit ==
    \E cases \in ExpandCases, browsers \in ExpandBrowserLists :
        ex = ExStart(cases, browsers)

CallExpand ==
    /\ ex.pc = "call"
    /\ ex' = [ex EXCEPT !.pc = "returned",
                        !.out = expand_test_cases_for_browsers(ex.cases, ex.browsers)]
    /\ UNCHANGED <<fallbackVars, checkerVars, runnerVars, featureVars, orchVars, unitVars>>

\* list.append on the list object obj: every case that holds the object
\* sees the new step.
AppendToList(cases, obj, step) ==
    [i \in DOMAIN cases |->
        IF cases[i].steps.obj = obj
        THEN [cases[i] EXCEPT !.steps.items = Append(@, step)]
        ELSE cases[i]]

\* The caller appends a step to the steps of the k-th expanded case.
AppendStepToExpanded(k) ==
    /\ ex.pc = "returned"
    /\ LET obj == ex.out[k].steps.obj
           step == E2ETestStep("wait", "None", "None", "None", "None")
       IN  ex' = [ex EXCEPT !.pc = "changed", !.changed = k,
                            !.cases = AppendToList(@, obj, step),
                            !.out = AppendToList(@, obj, step)]
    /\ UNCHANGED <<fallbackVars, checkerVars, runnerVars, featureVars, orchVars, unitVars>>

ExpandNext ==
    \/ CallExpand
    \/ \E k \in DOMAIN ex.out : AppendStepToExpanded(k)

(***************************************************************************)
(* full_suite.py: aggregate_results                                        *)
(***************************************************************************)
\* At most MaxResults results are aggregated.
MaxResults == 2

RECURSIVE SumChecks(_, _)
\* sum(r.<field> for r in results), for field one of the three counters
SumChecks(results, field) ==
    IF results = <<>> THEN 0
    ELSE LET r == Head(results)
             n == CASE field = "total_checks" -> r.total_checks
                    [] field = "passed_checks" -> r.passed_checks
                    [] field = "failed_checks" -> r.failed_checks
         IN  n + SumChecks(Tail(results), field)

RECURSIVE ExtendAll(_)
\* lines 243-244: all_failures.extend(r.failures) for r in results
ExtendAll(results) ==
    IF results = <<>> THEN <<>>
    ELSE Head(results).failures \o ExtendAll(Tail(results))

\* An aggregation that passes iff every constituent says it passed.
aggregate_results_PassedOfParts(results) ==
    E2EValidationResult(\A i \in DOMAIN results : results[i].passed,
                        SumChecks(results, "total_checks"),
                        SumChecks(results, "passed_checks"),
                        SumChecks(results, "failed_checks"),
                        ExtendAll(results), <<>>)

\* lines 212-252
aggregate_results(results) ==
    IF results = <<>> THEN E2EValidationResult(TRUE, 0, 0, 0, <<>>, <<>>)
    ELSE LET total == SumChecks(results, "total_checks")
             passed == SumChecks(results, "passed_checks")
             failed == SumChecks(results, "failed_checks")
         IN  E2EValidationResult(failed = 0, total, passed, failed,
                                 ExtendAll(results), <<>>)

\* The results given to aggregate_results: any E2EValidationResult, its
\* passed flag and failures list not bound to its counters.
FailureLists ==
    {<<>>, <<Failure("tc1", "error")>>,
     <<Failure("tc2", "error"), Failure("tc1", "error")>>}

PartResults ==
    {E2EValidationResult(p, t, np, nf, fl, <<>>) :
        p \in BOOLEAN, t \in 1..2, np \in 0..1, nf \in 0..1, fl \in FailureLists}

FcallOff == [pc |-> "off"]

FcallStart(fn, args) == [pc |-> "call", fn |-> fn, args |-> args, out |-> "None"]

RtcOff == [pc |-> "off"]

UnitIdle == fcall = FcallOff /\ rtc = RtcOff

AggregateInit ==
    /\ \E results \in SeqsUpTo(PartResults, MaxResults) :
           fcall = FcallStart("aggregate_results", results)
    /\ rtc = RtcOff

CallAggregateResults ==
    /\ fcall.pc = "call"
    /\ fcall.fn = "aggregate_results"
    /\ fcall' = [fcall EXCEPT !.pc = "returned", !.out = aggregate_results(fcall.args)]
    /\ UNCHANGED rtc
    /\ UNCHANGED <<fallbackVars, checkerVars, runnerVars, featureVars, orchVars, expandVars>>

AggregateNext == CallAggregateResults

(***************************************************************************)
(* validation_depth.py: get_validation_depth_for_tier called on its own    *)
(***************************************************************************)
\* The tier strings: the names of Tiers and more spellings of them.
DepthTiers ==
    Tiers \cup {"Quick-Flow", "METHOD", "Enterprise", "STANDARD", "UNKNOWN", ""}

\* config is None or any ValidationDepthConfig
DepthConfigs ==
    {None} \cup
    {Some(ValidationDepthConfig(s, st, c, f)) :
        s \in ValidationDepth, st \in ValidationDepth, c \in ValidationDepth,
        f \in ValidationDepth \cup {"None"}}

DepthInit ==
    /\ \E t \in DepthTiers, cfg \in DepthConfigs :
           fcall = FcallStart("get_validation_depth_for_tier", [tier |-> t, config |-> cfg])
    /\ rtc = RtcOff

CallGetValidationDepthForTier ==
    /\ fcall.pc = "call"
    /\ fcall.fn = "get_validation_depth_for_tier"
    /\ fcall' = [fcall EXCEPT !.pc = "returned",
                   !.out = get_validation_depth_for_tier(fcall.args.tier, fcall.args.config)]
    /\ UNCHANGED rtc
    /\ UNCHANGED <<fallbackVars, checkerVars, runnerVars, featureVars, orchVars, expandVars>>

DepthNext == CallGetValidationDepthForTier

(***************************************************************************)
(* validation.py: run_test_case and execute_step, step by step, for the    *)
(* cases of a sequential run on one client                                 *)
(***************************************************************************)
\* `not x` on an optional string: None and the empty string are falsy
Falsy(x) == x \in {"None", ""}

\* lines 93-148: the ValueError execute_step raises before any call on the
\* client, "None" if the step has what its action requires
StepConfigError(step) ==
    CASE step.action = "click" ->
           IF Falsy(step.selector) THEN "Click action requires selector" ELSE "None"
      [] step.action = "type" ->
           IF Falsy(step.selector) \/ Falsy(step.value)
           THEN "Type action requires selector and value" ELSE "None"
      [] step.action = "navigate" ->
           IF Falsy(step.value) THEN "Navigate action requires URL in value" ELSE "None"
      [] step.action = "wait" -> "None"
      [] step.action = "wait_for_selector" ->
           IF Falsy(step.selector) THEN "Wait for selector requires selector" ELSE "None"
      [] step.action = "select" ->
           IF Falsy(step.selector) \/ Falsy(step.value)
           THEN "Select action requires selector and value" ELSE "None"
      [] step.action = "check" ->
           IF Falsy(step.selector) THEN "Check action requires selector" ELSE "None"
      [] step.action = "submit" ->
           IF Falsy(step.selector) THEN "Submit action requires selector" ELSE "None"
      [] step.action = "assert_visible" ->
           IF Falsy(step.selector) THEN "Assert visible requires selector" ELSE "None"
      [] step.action = "assert_text" ->
           IF Falsy(step.selector) \/ Falsy(step.expected)
           THEN "Assert text requires selector and expected text" ELSE "None"
      [] step.action = "assert_position" ->
           IF Falsy(step.selector) \/ step.position = "None"
           THEN "Assert position requires selector and position" ELSE "None"
      [] OTHER -> "Unknown action type: " \o step.action

\* lines 93-146: the method of the client an action calls
ClientMethod(action) ==
    CASE action = "click" -> "click"
      [] action = "type" -> "type_text"
      [] action = "navigate" -> "launch_app"
      [] action = "wait" -> "wait"
      [] action = "wait_for_selector" -> "wait_for_selector"
      [] action = "select" -> "select"
      [] action = "check" -> "check"
      [] action = "submit" -> "submit"
      [] action = "assert_visible" -> "assert_visible"
      [] action = "assert_text" -> "assert_text"
      [] action = "assert_position" -> "assert_position"

\* lines 129-146: the actions whose false value is an AssertionError
AssertActions == {"assert_visible", "assert_text", "assert_position"}

\* The steps of the cases that are run: well-formed and malformed ones,
\* an assertion, and an action that is none.
RunSteps ==
    {E2ETestStep("click", "#go", "None", "None", "None"),
     E2ETestStep("click", "None", "None", "None", "None"),
     E2ETestStep("assert_visible", "#ok", "None", "None", "None"),
     E2ETestStep("hover", "#go", "None", "None", "None")}

\* The step lists and skip flags of the cases: any list of at most two of
\* the steps, not skipped, and a skipped case that has steps.
RunCaseKinds ==
    {<<items, FALSE>> : items \in SeqsUpTo(RunSteps, 2)} \cup
    {<<<<E2ETestStep("click", "#go", "None", "None", "None"),
         E2ETestStep("hover", "#go", "None", "None", "None")>>, TRUE>>}

RunCasesOf(n) ==
    { [i \in 1..n |->
          E2ETestCase(CaseId(i), CaseName(i), StepList(CaseId(i), kinds[i][1]),
                      kinds[i][2], FALSE)] :
        kinds \in [1..n -> RunCaseKinds] }

\* The dict run_test_case returns; failed_step is the "step" of the last
\* entry of interaction_history when the case failed, 0 otherwise.
CaseResult(id, passed, skipped, error, failed_step) ==
    [id |-> id, passed |-> passed, skipped |-> skipped, error |-> error,
     failed_step |-> failed_step]

\* A call on the client: made for step `step` of case number `case`
\* (step 0: the DOM snapshot after a failure), and what it did.
ClientCall(c, k, method, outcome) ==
    [case |-> c, step |-> k, method |-> method, outcome |-> outcome]

\* The run before its first case: c is the case in turn, k its step in
\* turn, calls the calls made on the client, results the dicts returned
\* so far, error the exception caught in the case in turn.
RtcStart(cases) ==
    [pc |-> IF cases = <<>> THEN "done" ELSE "call", cases |-> cases, c |-> 1,
     k |-> 0, calls |-> <<>>, results |-> <<>>, error |-> "None"]

\* run_test_case returns the dict; the caller's loop goes on to the next
\* case.
Returned(r, result) ==
    [r EXCEPT !.results = Append(@, result), !.c = @ + 1, !.k = 0,
              !.error = "None",
              !.pc = IF r.c = Len(r.cases) THEN "done" ELSE "call"]

\* An except clause that notes the error and goes on with the next step.
StepFailed_KeepsGoing(r, error) ==
    IF r.k = Len(r.cases[r.c].steps.items)
    THEN [r EXCEPT !.pc = "snapshot", !.error = error]
    ELSE [r EXCEPT !.k = @ + 1]

\* lines 59-63: the exception of a step is caught; the loop over the
\* steps has ended.
StepFailed(r, error) == [r EXCEPT !.pc = "snapshot", !.error = error]

\* lines 27-38, 40-42: a skipped case returns at once; otherwise the loop
\* over the steps starts (a case without steps passes).
run_test_case ==
    /\ rtc.pc = "call"
    /\ LET tc == rtc.cases[rtc.c]
       IN  rtc' = IF tc.skip
                  THEN Returned(rtc, CaseResult(tc.id, TRUE, TRUE, "None", 0))
                  ELSE IF tc.steps.items = <<>>
                  THEN Returned(rtc, CaseResult(tc.id, TRUE, FALSE, "None", 0))
                  ELSE [rtc EXCEPT !.pc = "step", !.k = 1]
    /\ UNCHANGED fcall
    /\ UNCHANGED <<fallbackVars, checkerVars, runnerVars, featureVars, orchVars, expandVars>>

\* lines 42-58, 82-148: step k is executed: a malformed step raises before
\* any call; otherwise the method of the action is called and raises,
\* returns false (an AssertionError for an assertion) or returns.
execute_step(outcome) ==
    /\ rtc.pc = "step"
    /\ LET tc == rtc.cases[rtc.c]
           step == tc.steps.items[rtc.k]
           called == [rtc EXCEPT !.calls =
                         Append(@, ClientCall(rtc.c, rtc.k, ClientMethod(step.action),
                                              outcome))]
       IN  rtc' =
             IF StepConfigError(step) # "None"
             THEN StepFailed(rtc, "ValueError: " \o StepConfigError(step))
             ELSE IF outcome = "raise"
             THEN StepFailed(called, "Exception: client error")
             ELSE IF outcome = "False" /\ step.action \in AssertActions
             THEN StepFailed(called, "AssertionError")
             ELSE IF rtc.k = Len(tc.steps.items)
             THEN Returned(called, CaseResult(tc.id, TRUE, FALSE, "None", 0))
             ELSE [called EXCEPT !.k = @ + 1]
    /\ UNCHANGED fcall
    /\ UNCHANGED <<fallbackVars, checkerVars, runnerVars, featureVars, orchVars, expandVars>>

\* lines 64-79: the DOM snapshot is asked for, its exception is swallowed,
\* and the failed dict is returned.
get_dom_snapshot(outcome) ==
    /\ rtc.pc = "snapshot"
    /\ LET tc == rtc.cases[rtc.c]
           called == [rtc EXCEPT !.calls =
                         Append(@, ClientCall(rtc.c, 0, "get_dom_snapshot", outcome))]
       IN  rtc' = Returned(called, CaseResult(tc.id, FALSE, FALSE, rtc.error, rtc.k))
    /\ UNCHANGED fcall
    /\ UNCHANGED <<fallbackVars, checkerVars, runnerVars, featureVars, orchVars, expandVars>>

RtcInit ==
    /\ \E n \in 0..MaxCases : \E cases \in RunCasesOf(n) : rtc = RtcStart(cases)
    /\ fcall = FcallOff

RtcNext ==
    \/ run_test_case
    \/ \E outcome \in BoolOutcomes : execute_step(outcome)
    \/ \E outcome \in CallOutcomes : get_dom_snapshot(outcome)

(***************************************************************************)
(* Specifications                                                          *)
(***************************************************************************)
vars == <<availability, config, project, fb, now, cache, pc, call, ncalls, hist,
          suite, e2e, fs_config, fs_pc, tasks, sem, fs_result,
          changed_files, mappings, ft, tier, vconfig, orch, ex, fcall, rtc>>

FallbackNext == handle_mcp_unavailable

FallbackIdle ==
    /\ availability = [status |-> "UNAVAILABLE", reason |-> "UNKNOWN",
                       message |-> "Server not running"]
    /\ config = [mode |-> "WARN", run_unit_tests |-> TRUE, run_lint |-> TRUE]
    /\ project = {}
    /\ fb = FbStart

\* handle_mcp_unavailable on every availability, config and project layout
FallbackSpecInit ==
    FallbackInit /\ CheckerInit /\ RunnerIdle /\ FeatureIdle /\ OrchIdle /\ ExpandIdle /\ UnitIdle

FallbackSpec == FallbackSpecInit /\ [][FallbackNext]_vars

\* one checker, concurrent callers
CheckerSpecInit ==
    FallbackIdle /\ CheckerInit /\ RunnerIdle /\ FeatureIdle /\ OrchIdle /\ ExpandIdle /\ UnitIdle

CheckerSpec == CheckerSpecInit /\ [][CheckerNext]_vars

\* one checker, concurrent callers, with the history of clear_cache
TrackedCheckerSpecInit ==
    FallbackIdle /\ TrackedCheckerInit /\ RunnerIdle /\ FeatureIdle /\ OrchIdle /\ ExpandIdle /\ UnitIdle

TrackedCheckerSpec == TrackedCheckerSpecInit /\ [][CheckerNext]_vars

\* one checker, calls issued one after another, with the history
TrackedSeqCheckerSpec == TrackedCheckerSpecInit /\ [][SeqCheckerNext]_vars

\* one checker, calls issued one after another
SeqCheckerSpec == CheckerSpecInit /\ [][SeqCheckerNext]_vars

\* one validation run by run_e2e_validation or by run_full_suite
RunnerSpecInit ==
    FallbackIdle /\ CheckerInit /\ RunnerInit /\ FeatureIdle /\ OrchIdle /\ ExpandIdle /\ UnitIdle

RunnerSpec == RunnerSpecInit /\ [][RunnerNext]_vars

\* one call of get_affected_features or of filter_tests_by_features
FeatureSpecInit ==
    FallbackIdle /\ CheckerInit /\ RunnerOff /\ FeatureInit /\ OrchIdle /\ ExpandIdle /\ UnitIdle

FeatureSpec == FeatureSpecInit /\ [][FeatureNext]_vars

\* one call of run_complexity_aware_validation
OrchSpecInit == FallbackIdle /\ CheckerInit /\ OrchInit /\ ExpandIdle /\ UnitIdle

OrchSpec == OrchSpecInit /\ [][OrchNext]_vars

\* one call of run_full_suite, by its caller or by the entry point
FullSpecInit ==
    /\ FallbackIdle /\ CheckerInit /\ ExpandIdle /\ UnitIdle
    /\ (FullDirectInit \/ FullOrchInit)

FullSpec == FullSpecInit /\ [][FullNext]_vars

\* one call of run_full_suite by its caller, one task per case of the
\* suite, with every awaited call ending and the event loop running a
\* task that is ready: a step is taken whenever one is possible.
FairFullSpecInit ==
    /\ FallbackIdle /\ CheckerInit /\ ExpandIdle /\ UnitIdle
    /\ FullDirectInit
    /\ ~fs_config.cross_browser
    /\ fs_config.browsers = <<"chromium">>

FairFullNext ==
    \/ run_full_suite
    \/ \E i \in DOMAIN tasks, factory \in CallOutcomes : run_with_semaphore(i, factory)
    \/ \E i \in DOMAIN tasks, outcome \in BoolOutcomes : TaskConnect(i, outcome)
    \/ \E i \in DOMAIN tasks, outcome \in BoolOutcomes : TaskLaunch(i, outcome)
    \/ \E i \in DOMAIN tasks, outcome \in CaseOutcomes : TaskRunCase(i, outcome)
    \/ \E i \in DOMAIN tasks, outcome \in CallOutcomes : TaskClose(i, outcome)
    \/ FullSuiteReturn

FairFullSpec == FairFullSpecInit /\ [][FairFullNext]_vars /\ WF_vars(FairFullNext)

\* one call of expand_test_cases_for_browsers
ExpandSpecInit ==
    FallbackIdle /\ CheckerInit /\ RunnerIdle /\ FeatureIdle /\ OrchIdle /\ ExpandInit /\ UnitIdle

ExpandSpec == ExpandSpecInit /\ [][ExpandNext]_vars

\* one call of aggregate_results
AggregateSpecInit ==
    FallbackIdle /\ CheckerInit /\ RunnerIdle /\ FeatureIdle /\ OrchIdle /\ ExpandIdle /\ AggregateInit

AggregateSpec == AggregateSpecInit /\ [][AggregateNext]_vars

\* a sequential run of run_test_case over the cases of a suite
RtcSpecInit ==
    FallbackIdle /\ CheckerInit /\ RunnerIdle /\ FeatureIdle /\ OrchIdle /\ ExpandIdle /\ RtcInit

RtcSpec == RtcSpecInit /\ [][RtcNext]_vars

\* one call of get_validation_depth_for_tier
DepthSpecInit ==
    FallbackIdle /\ CheckerInit /\ RunnerIdle /\ FeatureIdle /\ OrchIdle /\ ExpandIdle /\ DepthInit

DepthSpec == DepthSpecInit /\ [][DepthNext]_vars

(***************************************************************************)
(* Claims about the fallback handler (FallbackSpec)                        *)
(***************************************************************************)
Range(seq) == {seq[i] : i \in DOMAIN seq}

FbDone == fb.pc # "start"

ZeroCheckPass(r) ==
    /\ r.passed = TRUE
    /\ r.total_checks = 0
    /\ r.passed_checks = 0
    /\ r.failed_checks = 0

\* C1: for every availability value and every config whose mode is SKIP,
\* WARN or REDUCED, handle_mcp_unavailable returns a validation result with
\* passed = true and total_checks = passed_checks = failed_checks = 0.
C1_NonFailModesReturnPassingResult ==
    (FbDone /\ config.mode \in {"SKIP", "WARN", "REDUCED"}) =>
        /\ fb.pc = "returned"
        /\ fb.validation_result # None
        /\ ZeroCheckPass(fb.validation_result[1])

\* C3: with mode FAIL the handler returns a null validation result and a
\* FallbackResult with used_fallback = false and validation_run = "none",
\* for every availability value, and starts no local substitute check.
C3_FailModeReturnsNull ==
    (FbDone /\ config.mode = "FAIL") =>
        /\ fb.pc = "returned"
        /\ fb.validation_result = None
        /\ fb.fallback_result # None
        /\ fb.fallback_result[1].used_fallback = FALSE
        /\ fb.fallback_result[1].validation_run = "none"
        /\ fb.fallback_result[1].unit_tests_passed = "None"
        /\ fb.fallback_result[1].lint_passed = "None"
        /\ fb.calls = <<>>
        /\ fb.commands = <<>>

\* A FAIL call has returned although both substitutes were enabled and the
\* project has a test directory.
C3_Witness ==
    /\ fb.pc = "returned"
    /\ config.mode = "FAIL"
    /\ config.run_unit_tests /\ config.run_lint
    /\ "tests" \in project
    /\ availability.reason = "AUTH_FAILED"

\* C4: in REDUCED mode the unit-test substitute runs iff run_unit_tests and
\* the lint substitute runs iff run_lint, each outcome is recorded in the
\* FallbackResult, and the validation result is passed = true for every
\* outcome of the substitutes (pass, fail, the command failing to start);
\* in every other mode no substitute runs and both fields stay unset.
C4_ReducedRunsSubstitutesAndStillPasses ==
    FbDone =>
        LET doUnit == config.mode = "REDUCED" /\ config.run_unit_tests
            doLint == config.mode = "REDUCED" /\ config.run_lint
        IN  /\ ("_run_unit_tests" \in Range(fb.calls)) <=> doUnit
            /\ ("_run_lint" \in Range(fb.calls)) <=> doLint
            /\ fb.pc = "returned"
            /\ fb.fallback_result # None
            /\ (fb.fallback_result[1].unit_tests_passed # "None") <=> doUnit
            /\ (fb.fallback_result[1].lint_passed # "None") <=> doLint
            /\ config.mode = "REDUCED" =>
                   /\ fb.validation_result # None
                   /\ fb.validation_result[1].passed = TRUE

\* C5 as stated: in WARN mode the synthetic result carries the remediation
\* text of the catalog entry for the availability's failure reason.
C5_WarnCarriesRemediation ==
    (fb.pc = "returned" /\ config.mode = "WARN") =>
        /\ fb.validation_result # None
        /\ get_error_for_reason(availability.reason).remediation
               \in Range(fb.validation_result[1].raw_output)

\* C5 as amended: in WARN mode the synthetic result carries the message,
\* the error code and the documentation link of the catalog entry for the
\* availability's failure reason (the UNKNOWN entry when there is no
\* reason), and not the entry's remediation text.
C5_WarnCarriesMessageCodeAndDocs ==
    (fb.pc = "returned" /\ config.mode = "WARN") =>
        LET entry == IF availability.reason = "None"
                     THEN MCP_ERRORS["UNKNOWN"]
                     ELSE MCP_ERRORS[availability.reason]
            out   == fb.validation_result[1].raw_output
        IN  /\ fb.validation_result # None
            /\ out = << entry.message \o " [" \o entry.code \o "]", "",
                        "", "Documentation: " \o entry.docs_url[1] >>
            /\ entry.remediation \notin Range(out)
            /\ "Remediation:" \notin Range(out)

\* A WARN call has returned for a classified reason other than UNKNOWN.
C5_Witness ==
    /\ fb.pc = "returned"
    /\ config.mode = "WARN"
    /\ availability.reason = "SERVER_NOT_RUNNING"
    /\ fb.validation_result # None

(***************************************************************************)
(* Claims about the availability checker                                   *)
(***************************************************************************)
\* Caller c starts a check in this step.
Starts(c) == ncalls' = ncalls + 1 /\ call'[c].seq = ncalls' 

\* Caller c's probe ends in this step.
ProbeEnds(c) == InFlight(c) /\ pc'[c] = "done"

\* The claim's condition for a probe: forced, nothing cached for the kind,
\* or the cached entry at least one TTL old.
MustProbe(kind, force) ==
    \/ force
    \/ cache[kind] = None
    \/ now - cache[kind][1].checked_at >= CacheDuration

\* What a starting check of (kind, force) by c must do according to C6.
StartsAsClaimed(c, kind, force) ==
    /\ call'[c].kind = kind
    /\ call'[c].force = force
    /\ cache' = cache
    /\ IF MustProbe(kind, force)
       THEN /\ pc'[c] = "connect"
            /\ call'[c].probed = TRUE
            /\ call'[c].ret = None
       ELSE /\ pc'[c] = "done"
            /\ call'[c].probed = FALSE
            /\ call'[c].ret = cache[kind]

\* C6: for calls issued one after another, a check of a kind probes iff
\* force is true, or nothing is cached for the kind, or the cached entry's
\* age is at least the TTL; otherwise it returns the cached entry and
\* leaves the cache as it is.  An entry is stamped with the time its probe
\* ended, so a second call within the TTL window probes no more;
\* clear_cache empties both entries, and an empty entry is filled only by
\* the end of a probe of its kind, so the next check of each kind probes.
C6_ProbeIffForcedOrUncachedOrExpired ==
    [][ /\ \A c \in Callers :
              Starts(c) =>
                  \E kind \in Kinds, force \in BOOLEAN :
                      StartsAsClaimed(c, kind, force)
        /\ \A c \in Callers :
              ProbeEnds(c) =>
                  /\ cache'[call[c].kind] # None
                  /\ cache'[call[c].kind][1].checked_at = now
        /\ (cache' # cache /\ pc' = pc) => cache' = [k \in Kinds |-> None]
        /\ \A k \in Kinds :
              (cache[k] = None /\ cache'[k] # None) =>
                  \E c \in Callers : ProbeEnds(c) /\ call[c].kind = k
      ]_vars

\* A check was answered from the cache, which an earlier probe had filled.
C6_Witness ==
    \E c \in Callers :
        /\ pc[c] = "done"
        /\ call[c].probed = FALSE
        /\ call[c].ret # None
        /\ ncalls = 2

\* C7: when two check(force=false) calls for one backend kind overlap,
\* exactly one probe is performed: no two unforced probes of one kind are
\* ever in flight together.
C7_OverlappingChecksShareOneProbe ==
    \A c, d \in Callers :
        (c # d /\ InFlight(c) /\ InFlight(d) /\ call[c].kind = call[d].kind)
            => (call[c].force \/ call[d].force)

\* C8: every probe attempts close on its client exactly once, whether
\* connect returns true, returns false or raises.
C8_EveryProbeClosesOnce ==
    \A c \in Callers :
        (pc[c] = "done" /\ call[c].probed) => call[c].close_calls = 1

\* The exception that ended a probe, "none" if connect and close returned.
ProbeException(rec) ==
    IF rec.connect \notin {"True", "False"} THEN rec.connect
    ELSE IF rec.close # "ok" THEN rec.close
    ELSE "none"

\* The classification C9 states for a finished probe.
ClassifiedAsClaimed(rec, a) ==
    LET exc == ProbeException(rec)
    IN  CASE exc = "TimeoutError" ->
               /\ a.status = "UNAVAILABLE" /\ a.reason = "CONNECTION_TIMEOUT"
               /\ a.retry_after # None
               /\ a.retry_after[1] > a.checked_at
               /\ a.retry_after[1] - a.checked_at < RetryServerNotRunning
          [] exc = "PermissionError" ->
               /\ a.status = "UNAVAILABLE" /\ a.reason = "PERMISSION_DENIED"
               /\ a.retry_after = None
          [] exc = "Exception" ->
               /\ a.status = "UNAVAILABLE" /\ a.reason = "UNKNOWN"
               /\ a.retry_after = None
          [] exc = "none" /\ rec.connect = "False" ->
               /\ a.status = "UNAVAILABLE" /\ a.reason = "SERVER_NOT_RUNNING"
               /\ a.retry_after # None
               /\ a.retry_after[1] - a.checked_at = RetryServerNotRunning
          [] exc = "none" /\ rec.connect = "True" ->
               /\ a.status = "AVAILABLE" /\ a.reason = "None"
               /\ a.retry_after = None

\* C9: a probe's outcome (its exception if connect or close raised one,
\* connect's value otherwise) is classified as the claim's table says,
\* stored under the probed kind alone and returned; every cached entry is
\* AVAILABLE or UNAVAILABLE, with a reason iff UNAVAILABLE; every probe
\* ends by returning an entry.
C9_ProbeOutcomeClassifiedAndCached ==
    /\ [](\A k \in Kinds :
              cache[k] # None =>
                  /\ cache[k][1].status \in {"AVAILABLE", "UNAVAILABLE"}
                  /\ (cache[k][1].reason = "None") <=> (cache[k][1].status = "AVAILABLE"))
    /\ [](\A c \in Callers :
              (pc[c] = "done" /\ call[c].probed) =>
                  /\ call[c].ret # None
                  /\ ClassifiedAsClaimed(call[c], call[c].ret[1]))
    /\ [][\A c \in Callers :
              ProbeEnds(c) =>
                  /\ cache'[call[c].kind] = call'[c].ret
                  /\ \A k \in Kinds \ {call[c].kind} : cache'[k] = cache[k]
         ]_vars

\* A probe that timed out in connect has ended and its entry is cached,
\* while the other kind holds the entry of a probe that connected.
C9_Witness ==
    \E c, d \in Callers :
        /\ pc[c] = "done" /\ call[c].probed
        /\ call[c].connect = "TimeoutError"
        /\ cache[call[c].kind] = call[c].ret
        /\ pc[d] = "done" /\ call[d].probed /\ call[d].kind # call[c].kind
        /\ call[d].connect = "True" /\ call[d].close = "ok"
        /\ cache[call[d].kind] = call[d].ret

\* C10: whenever a probe's connect returns true, the entry cached and
\* returned is AVAILABLE with no reason, whatever close does.
C10_ConnectedMeansAvailable ==
    \A c \in Callers :
        (pc[c] = "done" /\ call[c].probed /\ call[c].connect = "True") =>
            /\ call[c].ret # None
            /\ call[c].ret[1].status = "AVAILABLE"
            /\ call[c].ret[1].reason = "None"

(***************************************************************************)
(* Claims about the runners (RunnerSpec)                                   *)
(***************************************************************************)
E2EDone == e2e.pc \in {"returned", "raised"}

\* The tasks of the full suite whose connect raised.
Unreached == {i \in DOMAIN tasks : tasks[i].connect = "raise"}

OpenSessions == {i \in DOMAIN tasks : tasks[i].pc \in {"connect", "launch", "run", "close"}}

\* C11: during run_full_suite the number of open automation sessions is at
\* every moment at most parallel_workers (the free slots of the semaphore
\* and the open sessions add up to parallel_workers).
C11_OpenSessionsBounded ==
    fs_pc \in {"running", "returned"} =>
        /\ Cardinality(OpenSessions) <= fs_config.parallel_workers
        /\ sem + Cardinality(OpenSessions) = fs_config.parallel_workers

\* More tasks than workers: every slot is taken and a task is waiting.
C11_Witness ==
    /\ fs_pc = "running"
    /\ Len(tasks) > fs_config.parallel_workers
    /\ Cardinality(OpenSessions) = fs_config.parallel_workers
    /\ \E i \in DOMAIN tasks : tasks[i].pc = "waiting"

\* The tasks in which a call raised, and the tasks in which none did and
\* whose case failed.
Raisers == {i \in DOMAIN tasks : tasks[i].raised # {}}
FailedCases == {i \in DOMAIN tasks : tasks[i].raised = {} /\ tasks[i].result = "fail"}

\* C12: a task of run_full_suite in which the factory, connect, launch or
\* close raises (an exception of the case run is caught by run_test_case
\* and is the case's failed dict) contributes exactly one failed record:
\* the returned result counts one failed check and one failure per such
\* task and per failed case, and nothing else.  The exception does not
\* leave run_full_suite, and every other task runs its whole session:
\* its case is run unless skipped, its client is closed once, and its
\* own pass or fail is what the result counts; a waiting task is never
\* left without a slot to wait for.
C12_TaskExceptionIsolated ==
    /\ \A i \in Raisers :
           tasks[i].pc = "done" => tasks[i].result \in {"caught", "exception"}
    /\ fs_pc = "returned" =>
           /\ \A i \in DOMAIN tasks : tasks[i].pc = "done"
           /\ fs_result # None
           /\ fs_result[1].failed_checks = Cardinality(Raisers) + Cardinality(FailedCases)
           /\ Len(fs_result[1].failures) = fs_result[1].failed_checks
           /\ fs_result[1].total_checks = Len(tasks)
           /\ fs_result[1].passed_checks + fs_result[1].failed_checks = Len(tasks)
           /\ fs_result[1].passed = (Raisers \cup FailedCases = {})
           /\ \A i \in DOMAIN tasks \ Raisers :
                  /\ tasks[i].close_calls = 1
                  /\ tasks[i].ran = ~tasks[i].case.skip
                  /\ tasks[i].result \in {"pass", "fail"}
    /\ (fs_pc = "running" /\ \E i \in DOMAIN tasks : tasks[i].pc = "waiting") =>
           (sem > 0 \/ OpenSessions # {})

\* The suite has returned; the factory raised in one task, close raised
\* in another, and a third ran its case and passed.
C12_Witness ==
    /\ fs_pc = "returned"
    /\ \E i, j, k \in DOMAIN tasks :
           /\ tasks[i].raised = {"factory"}
           /\ "close" \in tasks[j].raised
           /\ tasks[k].raised = {} /\ tasks[k].ran /\ tasks[k].result = "pass"
    /\ fs_result[1].failed_checks = 2

(***************************************************************************)
(* Claims about the entry point (OrchSpec)                                 *)
(***************************************************************************)
OrchDone == orch.pc \in {"returned", "raised"}

\* The entry point has a client of its own: the depth is SMOKE or FEATURE
\* and the factory returned.
OrchHasClient == orch.pc # "off" /\ orch.depth \in {"smoke", "feature"} /\ orch.calls # <<>>

Count(seq, x) == Cardinality({i \in DOMAIN seq : seq[i] = x})

\* C13: every client obtained from the factory is closed exactly once and
\* after its other calls.  At SMOKE and FEATURE depth, close is the last
\* call made on the client once the entry point has ended, it is made
\* once, and no call follows it, whether connect, launch and the checks
\* or cases succeeded, returned false or raised.  In run_full_suite a
\* task that holds a client has not closed it while it holds its slot,
\* has closed it once when it is done, and a slot is released only in the
\* step in which a close ends.
C13_EveryClientClosedOnce ==
    /\ [](OrchHasClient =>
             /\ Count(orch.calls, "close") = (IF orch.pc \in {"close", "returned", "raised"}
                                               THEN 1 ELSE 0)
             /\ orch.pc \in {"close", "returned", "raised"} =>
                    orch.calls[Len(orch.calls)] = "close"
             /\ orch.calls[1] = "connect")
    /\ [](\A i \in DOMAIN tasks :
             /\ i \in OpenSessions => tasks[i].close_calls = 0
             /\ tasks[i].pc = "done" =>
                    tasks[i].close_calls = (IF tasks[i].raised = {"factory"} THEN 0 ELSE 1))
    /\ [][(fs_pc = "running" /\ sem' > sem) =>
              \E i \in DOMAIN tasks :
                  /\ tasks[i].pc = "close"
                  /\ tasks'[i].pc = "done"
                  /\ tasks'[i].close_calls = 1]_vars

\* At SMOKE depth connect raised: the entry point ended with an exception
\* after it closed the client.
C13_Witness ==
    /\ orch.pc = "raised"
    /\ orch.depth = "smoke"
    /\ orch.body = "raised"
    /\ orch.calls = <<"connect", "close">>

\* C14: run_complexity_aware_validation returns a (Result, Metrics) pair
\* and logs the metrics before it returns, for every tier, suite and
\* client behaviour: whenever the entry point has ended, it has returned
\* (no exception left it), with a result, with metrics and with the
\* metrics logged.
C14_EntryPointAlwaysReturnsPair ==
    OrchDone =>
        /\ orch.pc = "returned"
        /\ orch.result # None
        /\ orch.metrics # None
        /\ orch.log # <<>>

\* C15: at SMOKE depth the result reports exactly 4 checks (total_checks
\* = 4 and passed_checks + failed_checks = 4, one failure per failed
\* check) for every suite and every behaviour of the client inside the
\* four checks; run_test_case is never called, and the metrics report 4
\* tests and the suite's test-case count as skipped.
C15_SmokeReportsFourChecks ==
    (orch.pc # "off" /\ orch.depth = "smoke") =>
        /\ Count(orch.calls, "run_test_case") = 0
        /\ orch.pc = "returned" =>
               /\ orch.result[1].total_checks = 4
               /\ orch.result[1].passed_checks + orch.result[1].failed_checks = 4
               /\ Len(orch.result[1].failures) = orch.result[1].failed_checks
               /\ orch.result[1].passed = (orch.result[1].failed_checks = 0)
               /\ orch.metrics[1].test_count = 4
               /\ orch.metrics[1].skipped_test_count = Len(suite)

\* A suite of two cases at SMOKE depth: the app did not load, so checks 1
\* and 2 failed and checks 3 and 4 passed.
C15_Witness ==
    /\ orch.pc = "returned"
    /\ orch.depth = "smoke"
    /\ Len(suite) = 2
    /\ ~orch.smoke.app_loads
    /\ orch.result[1].failed_checks = 2
    /\ orch.result[1].passed_checks = 2

\* run_smoke_tests has returned to the entry point.
SmokeReturned ==
    /\ orch.pc \in {"close", "returned", "raised"}
    /\ orch.depth = "smoke"
    /\ orch.body = "result"

Check2Errors == {"Main page did not render expected elements",
                 "Main page render check failed: error"}

FilterReturned == ft.pc = "returned" /\ ft.fn = "filter_tests_by_features"

AffectedReturned == ft.pc = "returned" /\ ft.fn = "get_affected_features"

\* C17: filter_tests_by_features with an empty features argument returns
\* the suite unfiltered: exactly the suite's test cases in the suite's
\* order, for every suite and every mappings list.
C17_EmptyFeaturesReturnSuite ==
    (FilterReturned /\ ft.features = {}) => ft.out = suite

\* The id is among the test ids of a mapping whose feature is one of the
\* features given to the filter.
Referenced(id) ==
    \E j \in DOMAIN mappings :
        /\ mappings[j].feature_name \in ft.features
        /\ id \in Range(mappings[j].test_ids)

\* The place of a case in the suite (the ids of the suite are distinct).
Pos(tc) == CHOOSE i \in DOMAIN suite : suite[i] = tc

\* C18: for every suite, features argument (the empty one included) and
\* mappings, every critical test case is in the output of
\* filter_tests_by_features; the output holds only cases of the suite,
\* each once: the cases whose id an activated mapping references, in the
\* order of the suite, followed by the critical cases not referenced, in
\* the order of the suite.
C18_CriticalCasesSurviveFilter ==
    FilterReturned =>
        /\ \A i \in DOMAIN suite : suite[i].critical => suite[i] \in Range(ft.out)
        /\ Range(ft.out) \subseteq Range(suite)
        /\ \A i \in DOMAIN suite :
               (suite[i] \in Range(ft.out)) =
                   (Referenced(suite[i].id) \/ suite[i].critical)
        /\ \A a, b \in DOMAIN ft.out :
               a < b =>
                   /\ ft.out[a] # ft.out[b]
                   /\ \/ Referenced(ft.out[a].id) /\ ~Referenced(ft.out[b].id)
                      \/ /\ Referenced(ft.out[a].id) = Referenced(ft.out[b].id)
                         /\ Pos(ft.out[a]) < Pos(ft.out[b])

\* The second case of the suite is referenced and the first is critical
\* and not referenced: the output has the second case before the first.
C18_Witness ==
    /\ FilterReturned
    /\ ft.features # {}
    /\ Len(ft.out) = 2
    /\ Referenced(ft.out[1].id) /\ ~Referenced(ft.out[2].id)
    /\ ft.out[2].critical
    /\ Pos(ft.out[1]) > Pos(ft.out[2])

\* Some changed file matches some pattern of a mapping of the feature.
Activated(f) ==
    \E i \in DOMAIN changed_files, j \in DOMAIN mappings :
        /\ mappings[j].feature_name = f
        /\ \E k \in DOMAIN mappings[j].code_paths :
               fnmatch(changed_files[i], mappings[j].code_paths[k])

\* C19: get_affected_features is monotonic in the changed files: for the
\* same mappings, every list of paths taken from the changed files gives a
\* subset of the features returned for the changed files; and a feature
\* is returned if and only if some changed path matches some pattern of a
\* mapping with that feature name.
C19_AffectedFeaturesMonotonic ==
    AffectedReturned =>
        /\ \A f \in FeatureNames \cup ft.out : (f \in ft.out) = Activated(f)
        /\ \A P \in SeqsUpTo(Range(changed_files), Len(changed_files)) :
               get_affected_features(P, mappings) \subseteq ft.out

\* Two changed files activate both features, and one of them alone
\* activates one feature only.
C19_Witness ==
    /\ AffectedReturned
    /\ Len(changed_files) = 2
    /\ ft.out = FeatureNames
    /\ \E i \in DOMAIN changed_files :
           Cardinality(get_affected_features(<<changed_files[i]>>, mappings)) = 1

(***************************************************************************)
(* Claims about the expansion (ExpandSpec)                                 *)
(***************************************************************************)
ExpandReturned == ex.pc \in {"returned", "changed"}

\* C20: expand_test_cases_for_browsers(cases, envs) returns exactly
\* len(cases) * len(envs) cases, case-major and environment-minor: the
\* item for case i and environment j is at place (i - 1) * len(envs) + j,
\* has the id "<id of case i>-<environment j>", the skip and critical
\* flags of case i and a copy of its steps (the same steps in a list
\* object that no input case holds).  The input cases are left as they
\* were, also when the caller afterwards appends a step to an expanded
\* case, which changes that expanded case only.
C20_ExpandIsCaseMajorCopy ==
    ExpandReturned =>
        /\ Len(ex.out) = Len(ex.orig) * Len(ex.browsers)
        /\ ex.cases = ex.orig
        /\ \A i \in DOMAIN ex.orig, j \in DOMAIN ex.browsers :
               LET k == (i - 1) * Len(ex.browsers) + j
               IN  /\ ex.out[k].id = ex.orig[i].id \o "-" \o ex.browsers[j]
                   /\ ex.out[k].skip = ex.orig[i].skip
                   /\ ex.out[k].critical = ex.orig[i].critical
                   /\ k # ex.changed => ex.out[k].steps.items = ex.orig[i].steps.items
                   /\ \A n \in DOMAIN ex.orig :
                          ex.out[k].steps.obj # ex.orig[n].steps.obj

\* Two cases were expanded for two browsers and the caller appended a
\* step to the third expanded case, the second case on the first browser.
C20_Witness ==
    /\ ex.pc = "changed"
    /\ Len(ex.orig) = 2
    /\ Len(ex.browsers) = 2
    /\ ex.changed = 3
    /\ ex.out[3].id = "tc2-chromium"
    /\ Len(ex.out[3].steps.items) = Len(ex.orig[2].steps.items) + 1

(***************************************************************************)
(* Claims about identifiers (FeatureSpec, ExpandSpec)                      *)
(***************************************************************************)
DistinctIds(cases) ==
    \A i, j \in DOMAIN cases : cases[i].id = cases[j].id => i = j

FilterKeepsIdsUnique ==
    (FilterReturned /\ DistinctIds(suite)) => DistinctIds(ft.out)

ExpandKeepsIdsUnique ==
    (ExpandReturned /\ DistinctIds(ex.orig)) => DistinctIds(ex.out)

\* C21: if the ids of the input cases are pairwise distinct, the ids in
\* the output of filter_tests_by_features and in the output of
\* expand_test_cases_for_browsers are pairwise distinct, for every
\* features argument and every list of environment names.
C21_IdsStayUnique == FilterKeepsIdsUnique /\ ExpandKeepsIdsUnique

(***************************************************************************)
(* Claims about aggregate_results (AggregateSpec)                          *)
(***************************************************************************)
Aggregated == fcall.pc = "returned" /\ fcall.fn = "aggregate_results"

\* The sum of f over the elements of a sequence, counted from its end.
RECURSIVE SumOver(_, _)
SumOver(f(_), n) == IF n = 0 THEN 0 ELSE SumOver(f, n - 1) + f(n)

\* C22: aggregate_results(results) returns total_checks, passed_checks and
\* failed_checks equal to the sums of the constituents' fields, failures
\* equal to the concatenation of the constituents' failures in order, and
\* passed true iff the summed failed_checks is 0; the empty list
\* aggregates to passed = true with zero checks.
C22_AggregateSumsConstituents ==
    Aggregated =>
        LET rs == fcall.args
            out == fcall.out
            total(i) == rs[i].total_checks
            npassed(i) == rs[i].passed_checks
            nfailed(i) == rs[i].failed_checks
            nfailures(i) == Len(rs[i].failures)
        IN  /\ out.total_checks = SumOver(total, Len(rs))
            /\ out.passed_checks = SumOver(npassed, Len(rs))
            /\ out.failed_checks = SumOver(nfailed, Len(rs))
            /\ out.passed = (SumOver(nfailed, Len(rs)) = 0)
            /\ Len(out.failures) = SumOver(nfailures, Len(rs))
            /\ \A i \in DOMAIN rs : \A k \in DOMAIN rs[i].failures :
                   out.failures[SumOver(nfailures, i - 1) + k]
                       = rs[i].failures[k]
            /\ rs = <<>> => out.passed /\ out.total_checks = 0

\* Two results were aggregated: the first says it failed and counts no
\* failed check, the second brings its two failure records.
C22_Witness ==
    /\ Aggregated
    /\ Len(fcall.args) = 2
    /\ ~fcall.args[1].passed
    /\ fcall.args[1].failed_checks = 0
    /\ Len(fcall.args[1].failures) = 1
    /\ Len(fcall.args[2].failures) = 2
    /\ Len(fcall.out.failures) = 3

(***************************************************************************)
(* Claims about the depth of validation (DepthSpec)                        *)
(***************************************************************************)
Resolved == fcall.pc = "returned" /\ fcall.fn = "get_validation_depth_for_tier"

Forced(cfg) == cfg # None /\ cfg[1].force_depth # "None"

\* C23: for every tier string and every config with force_depth set,
\* get_validation_depth_for_tier returns force_depth, whatever the
\* per-tier depths of the config are.
C23_ForceDepthOverridesTier ==
    (Resolved /\ Forced(fcall.args.config)) =>
        fcall.out = fcall.args.config[1].force_depth

\* A tier string that is no tier was resolved under a config that forces
\* the full depth and assigns other depths to the tiers.
C23_Witness ==
    /\ Resolved
    /\ fcall.args.tier = "unknown"
    /\ fcall.args.config = Some(ValidationDepthConfig("feature", "smoke", "smoke", "full"))
    /\ fcall.out = "full"

\* The same tier in the other vocabulary, in lower case; a string that is
\* no tier has no twin.
Twin(t) ==
    CASE Lower(t) = "simple" -> "quick-flow"
      [] Lower(t) = "quick-flow" -> "simple"
      [] Lower(t) = "standard" -> "method"
      [] Lower(t) = "method" -> "standard"
      [] Lower(t) = "complex" -> "enterprise"
      [] Lower(t) = "enterprise" -> "complex"
      [] OTHER -> "None"

\* C24: for every config with force_depth unset (the default one or one
\* with per-tier overrides) a tier resolves, in any case of its letters,
\* to the depth its twin in the other vocabulary resolves to (simple and
\* quick-flow, standard and method, complex and enterprise), and any other
\* tier string resolves to FEATURE whatever the overrides are.
C24_VocabulariesResolveAlike ==
    (Resolved /\ ~Forced(fcall.args.config)) =>
        IF Twin(fcall.args.tier) = "None" THEN fcall.out = "feature"
        ELSE fcall.out = get_validation_depth_for_tier(Twin(fcall.args.tier),
                                                       fcall.args.config)

\* "Quick-Flow" was resolved under a config that assigns the full depth to
\* the simple tier and forces nothing.
C24_Witness ==
    /\ Resolved
    /\ fcall.args.tier = "Quick-Flow"
    /\ fcall.args.config = Some(ValidationDepthConfig("full", "smoke", "smoke", "None"))
    /\ fcall.out = "full"

(***************************************************************************)
(* Claims about the counts of the full suite (FullSpec)                    *)
(***************************************************************************)
FullSuiteReturned == fs_pc = "returned"

\* len(cases) * len(browsers) when cross_browser is enabled and more than
\* one browser is configured, len(cases) otherwise
ExpectedChecks(cfg) ==
    IF cfg.cross_browser /\ Len(cfg.browsers) > 1
    THEN Len(suite) * Len(cfg.browsers)
    ELSE Len(suite)

\* C25: run_full_suite counts every case exactly once, in whatever order
\* the tasks end: total_checks is len(cases) * len(browsers) when
\* cross_browser is enabled and more than one browser is configured and
\* len(cases) otherwise, passed_checks + failed_checks = total_checks, and
\* passed iff failed_checks = 0.  Through the entry point at FULL depth
\* total_checks is twice the suite size and metrics.browser_count is 2.
C25_FullSuiteCountsEveryCaseOnce ==
    /\ FullSuiteReturned =>
           LET r == fs_result[1]
           IN  /\ r.total_checks = ExpectedChecks(fs_config)
               /\ r.passed_checks + r.failed_checks = r.total_checks
               /\ r.passed = (r.failed_checks = 0)
    /\ (orch.pc = "returned" /\ orch.depth = "full") =>
           /\ orch.result[1].total_checks = 2 * Len(suite)
           /\ orch.metrics[1].test_count = 2 * Len(suite)
           /\ orch.metrics[1].browser_count = 2

\* The entry point returned at FULL depth for a suite of one case: two
\* checks, one of them failed.
C25_Witness ==
    /\ orch.pc = "returned"
    /\ orch.depth = "full"
    /\ Len(suite) = 1
    /\ orch.result[1].total_checks = 2
    /\ orch.result[1].failed_checks = 1
    /\ orch.metrics[1].browser_count = 2

(***************************************************************************)
(* Claims about the FEATURE depth (OrchSpec)                               *)
(***************************************************************************)
FeatureReturned == orch.pc = "returned" /\ orch.depth = "feature"

\* C26: at FEATURE depth metrics.test_count + metrics.skipped_test_count
\* is the number of test cases of the suite; when no changed path is
\* given, every test case of the suite is handed to run_test_case, one
\* after another in suite order, on the one session that was connected
\* and on which launch_app was called once before the first case, and
\* skipped_test_count is 0.
C26_FeatureCountsCoverSuite ==
    FeatureReturned =>
        /\ orch.metrics[1].test_count + orch.metrics[1].skipped_test_count = Len(suite)
        /\ changed_files = <<>> =>
               /\ orch.ran = [i \in 1..Len(suite) |-> suite[i].id]
               /\ orch.metrics[1].skipped_test_count = 0
               /\ orch.metrics[1].test_count = Len(suite)
               /\ Count(orch.calls, "connect") = 1
               /\ Count(orch.calls, "launch_app") = 1
               /\ orch.calls[1] = "connect"
               /\ orch.calls[2] = "launch_app"
               /\ \A i \in DOMAIN orch.calls :
                      (i > 2 /\ i < Len(orch.calls)) => orch.calls[i] = "run_test_case"

\* No changed path was given and the mappings name a feature: the two
\* cases of the suite, neither critical, were run in suite order, and the
\* second failed.
C26_Witness ==
    /\ FeatureReturned
    /\ changed_files = <<>>
    /\ mappings # <<>>
    /\ Len(suite) = 2
    /\ \A i \in DOMAIN suite : ~suite[i].critical /\ ~suite[i].skip
    /\ orch.ran = <<"tc1", "tc2">>
    /\ orch.metrics[1].failed_count = 1
    /\ orch.metrics[1].skipped_test_count = 0

(***************************************************************************)
(* Claims about the progress of the full suite (FairFullSpec)              *)
(***************************************************************************)
\* C27: for every parallel_workers >= 1 and every case list, if every
\* client call returns or raises, every task that waits for a slot gets
\* one and run_full_suite returns its result: the slot of a session is
\* given back when connect, launch, the case or close raises as well.
C27_EveryTaskGetsSlotAndSuiteReturns ==
    /\ (fs_pc = "running") ~> (fs_pc = "returned" /\ fs_result # None)
    /\ \A i \in 1..MaxTasks :
           (i \in DOMAIN tasks /\ tasks[i].pc = "waiting")
               ~> (i \in DOMAIN tasks /\ tasks[i].pc # "waiting")

\* One worker and two tasks: one task waited while the other held the
\* slot, close raised in that session, and the task that waited now
\* holds the slot.
C27_Witness ==
    /\ fs_pc = "running"
    /\ fs_config.parallel_workers = 1
    /\ sem = 0
    /\ \E i, j \in DOMAIN tasks :
           /\ tasks[i].pc = "done" /\ "close" \in tasks[i].raised
           /\ tasks[j].pc \in {"connect", "launch", "run", "close"}

(***************************************************************************)
(* Claims about clear_cache and probes in flight (TrackedCheckerSpec)      *)
(***************************************************************************)
\* Caller c starts a check of a kind and is answered from the cache.
ServedFromCache(c, kind) ==
    /\ pc[c] \in {"idle", "done"}
    /\ pc'[c] = "done"
    /\ ncalls' = ncalls + 1
    /\ call'[c].kind = kind

\* C28: clear_cache forgets the cached entries also with respect to
\* probes in flight: a check is never answered from the cache with the
\* entry of a probe that was started before a clear_cache and ended after
\* it, so the first check(force=false) of a kind after a clear_cache
\* performs a probe.
C28_ClearForgetsProbesInFlight ==
    [][\A c \in Callers, kind \in Kinds :
           ServedFromCache(c, kind) => kind \notin hist.stale]_vars

(***************************************************************************)
(* Claims about a launch that fails (RunnerSpec, OrchSpec)                 *)
(***************************************************************************)
\* run_e2e_validation after a launch_app that returned false
E2ELaunchFailureReportedOnce ==
    (E2EDone /\ e2e.launch = "False") =>
        /\ e2e.ran = <<>>
        /\ e2e.close_calls = 1
        /\ e2e.pc = "returned" =>
               /\ ~e2e.result[1].passed
               /\ e2e.result[1].failures =
                      <<Failure("None", "Failed to launch app at " \o AppUrl)>>

\* the FEATURE depth of the entry point after a launch_app that returned
\* false
FeatureLaunchFailureReportedOnce ==
    (OrchDone /\ orch.depth = "feature" /\ orch.launch = "False") =>
        /\ Count(orch.calls, "run_test_case") = 0
        /\ Count(orch.calls, "close") = 1
        /\ orch.pc = "returned" =>
               /\ ~orch.result[1].passed
               /\ Len(orch.result[1].failures) = 1

\* C29: a launch_app that returns false is reported once for the whole
\* batch: no test case is run on that session, the result is failed with
\* exactly one failure record, which describes the launch failure, and
\* the client is still closed; in run_e2e_validation and at the FEATURE
\* depth of run_complexity_aware_validation.
C29_LaunchFailureReportedOnce ==
    E2ELaunchFailureReportedOnce /\ FeatureLaunchFailureReportedOnce

(***************************************************************************)
(* Claims about run_test_case (RtcSpec)                                    *)
(***************************************************************************)
\* The calls made for the steps of case number c, in the order made.
StepCalls(c) == SelectSeq(rtc.calls, LAMBDA x : x.case = c /\ x.step # 0)

\* A call that made its step raise: it raised, or it is the call of an
\* assertion and returned false.
CallFailed(x) ==
    \/ x.outcome = "raise"
    \/ x.outcome = "False" /\ x.method \in AssertActions

\* C30: run_test_case executes the steps of a case in list order and
\* stops at the first step that raises (a malformed step, a failed
\* assertion, an exception of the client): the calls made for a case are
\* those of its steps 1, 2, ... in order, none is made for a step after
\* the one that raised, the case is returned as passed = false with the
\* error of that step, and a passed case had every step called without a
\* failure.  The exception does not leave run_test_case: every case of
\* the run gets its dict, in order.  A case with skip = true has no call
\* on the client and is returned as passed.
C30_StepsInOrderStopAtFirstFailure ==
    /\ Len(rtc.results) <= Len(rtc.cases)
    /\ rtc.pc = "done" => Len(rtc.results) = Len(rtc.cases)
    /\ \A c \in DOMAIN rtc.results :
           LET tc == rtc.cases[c]
               r == rtc.results[c]
               steps == tc.steps.items
               cs == StepCalls(c)
           IN  /\ r.id = tc.id
               /\ \A j \in DOMAIN cs :
                      /\ cs[j].step = j
                      /\ cs[j].method = ClientMethod(steps[j].action)
                      /\ CallFailed(cs[j]) => j = Len(cs)
               /\ tc.skip =>
                      /\ r.passed /\ r.skipped
                      /\ \A i \in DOMAIN rtc.calls : rtc.calls[i].case # c
               /\ (~tc.skip /\ r.passed) =>
                      /\ Len(cs) = Len(steps)
                      /\ \A j \in DOMAIN cs : ~CallFailed(cs[j])
               /\ ~r.passed =>
                      LET k == r.failed_step
                      IN  /\ k \in DOMAIN steps
                          /\ \A j \in 1..(k - 1) : StepConfigError(steps[j]) = "None"
                          /\ IF StepConfigError(steps[k]) # "None"
                             THEN /\ Len(cs) = k - 1
                                  /\ r.error = "ValueError: " \o StepConfigError(steps[k])
                             ELSE /\ Len(cs) = k
                                  /\ CallFailed(cs[k])
                                  /\ r.error = IF cs[k].outcome = "raise"
                                               THEN "Exception: client error"
                                               ELSE "AssertionError"

\* A run of two cases has ended: the first step of the first case raised
\* in the client, its second step was not called, and the second case was
\* run and passed.
C30_Witness ==
    /\ rtc.pc = "done"
    /\ Len(rtc.cases) = 2
    /\ Len(rtc.cases[1].steps.items) = 2
    /\ ~rtc.results[1].passed
    /\ rtc.results[1].failed_step = 1
    /\ rtc.results[1].error = "Exception: client error"
    /\ Len(StepCalls(1)) = 1
    /\ ~rtc.cases[2].skip
    /\ Len(StepCalls(2)) = 2
    /\ rtc.results[2].passed

====
